---- MODULE Spec2Model ----
(***************************************************************************)
(* Seat-chance evaluation of modules/multi_student_analyzer.py             *)
(* (display_multi_student_analyzer): the master table and the student      *)
(* batch are loaded and coerced, the button starts the nested loop over    *)
(* students and master rows, every pair of a known institute type appends  *)
(* one result row, and the rows are stored in the session.                 *)
(***************************************************************************)
EXTENDS Integers, Sequences, FiniteSets, TLC

VARIABLES
    processed_master_df,    \* [columns: cutoff columns of the sheet, rows: Seq of master rows]
    student_batch_df,       \* Seq of student rows, rank cells coerced
    hash_seed,              \* the process's string-hash order (iteration order of set())
    session_state,          \* the key "analysis_results_df" of st.session_state
    pc,                     \* position of the page run
    results_list,           \* rows appended so far
    idx,                    \* student row of the outer loop (0 before the first)
    opt,                    \* master row of the inner loop (0 before the first)
    current_student_adv_rank,
    current_student_mains_rank,
    current_student_eligible_cutoff_cols,
    master_file,            \* data/MASTER EXCEL.xlsx as a page run finds it
    student_batch_file,     \* the file in the batch uploader
    button,                 \* what st.button returned in this page run
    message,                \* the error or notice the page run has shown
    downloaded_csv,         \* the CSV last taken from the download button, with its inputs
    workflow,               \* the single-student page that is run
    jpc,                    \* position of the single-student page run
    student_df,             \* the student's choice rows, with Main_Code
    master_df,              \* the master rows of the single-student pages, with Main_Code
    merged_df,              \* the left merge of student_df with master_df
    reported,               \* the tables and notices the single-student page has shown
    choice_numbers,         \* the 'Choice Number' cells of one program group
    order_range,            \* the Order_Range text shown for the group
    sheet_header,           \* a header cell of a loaded sheet, as typed
    column_name,            \* the name the page gives the column
    student_rank,           \* sidebar "Your Rank (approx)"
    student_category_input, \* sidebar "Your Category"
    student_gender_pref,    \* sidebar "Gender Preference"
    col_to_check,           \* the cutoff column Smart Insights compares against
    filtered_analysis_df    \* the option rows Smart Insights analyses

\* the files and artefacts outside the page run
files == <<master_file, student_batch_file, downloaded_csv>>

\* the state of the single-student pages
\* what the single-student pages compute after the merge
insight_vars == <<choice_numbers, order_range, sheet_header, column_name, student_rank,
                  student_category_input, student_gender_pref, col_to_check,
                  filtered_analysis_df>>

join_vars == <<workflow, jpc, student_df, master_df, merged_df, reported, insight_vars>>

vars == <<processed_master_df, student_batch_df, hash_seed, session_state, pc,
          results_list, idx, opt, current_student_adv_rank,
          current_student_mains_rank, current_student_eligible_cutoff_cols,
          files, button, message, join_vars>>

-----------------------------------------------------------------------------
(* Bounds of the checked inputs *)

MaxRank == 2
MaxCutoff == 2
MaxStudents == 2
MaxOptions == 2

-----------------------------------------------------------------------------
(* Cell values *)

\* float NaN: what pd.to_numeric(errors='coerce') leaves for a blank or unparseable cell
NaN == -1
\* Python None
None == -2
\* float inf: what pd.to_numeric leaves for the text "inf"
Inf == -3

\* decimal text of the integers 0..9 (str(int(x)) and its inverse, the parse of a cell)
Numerals == <<"0", "1", "2", "3", "4", "5", "6", "7", "8", "9">>

\* pd.to_numeric(cell, errors='coerce') of a text cell
to_numeric(cell) ==
    IF \E n \in 1..Len(Numerals) : Numerals[n] = cell
    THEN (CHOOSE n \in 1..Len(Numerals) : Numerals[n] = cell) - 1
    ELSE IF cell = "inf" THEN Inf
    ELSE NaN

notna(x) == x # NaN /\ x # None

\* f"{int(x)}" if pd.notna(x) else "N/A"
fmt_int(x) == IF notna(x) THEN Numerals[x + 1] ELSE "N/A"

-----------------------------------------------------------------------------
(* Tables of the program *)

all_cutoff_cols ==
    <<"OC_FEM", "OC_GEN", "EWS_FEM", "EWS_GEN", "OBC_FEM", "OBC_GEN",
      "SC_FEM", "SC_GEN", "ST_FEM", "ST_GEN">>

\* as category_to_cutoff_map, the FEM entry of OC naming another category's column
category_to_cutoff_map_oc_typo ==
    [c \in {"OC", "EWS", "OBC", "SC", "ST"} |->
        CASE c = "OC"  -> [FEM |-> "OBC_FEM", GEN |-> "OC_GEN"]
          [] c = "EWS" -> [FEM |-> "EWS_FEM", GEN |-> "EWS_GEN"]
          [] c = "OBC" -> [FEM |-> "OBC_FEM", GEN |-> "OBC_GEN"]
          [] c = "SC"  -> [FEM |-> "SC_FEM",  GEN |-> "SC_GEN"]
          [] c = "ST"  -> [FEM |-> "ST_FEM",  GEN |-> "ST_GEN"]]

category_to_cutoff_map ==
    [c \in {"OC", "EWS", "OBC", "SC", "ST"} |->
        CASE c = "OC"  -> [FEM |-> "OC_FEM",  GEN |-> "OC_GEN"]
          [] c = "EWS" -> [FEM |-> "EWS_FEM", GEN |-> "EWS_GEN"]
          [] c = "OBC" -> [FEM |-> "OBC_FEM", GEN |-> "OBC_GEN"]
          [] c = "SC"  -> [FEM |-> "SC_FEM",  GEN |-> "SC_GEN"]
          [] c = "ST"  -> [FEM |-> "ST_FEM",  GEN |-> "ST_GEN"]]

Range(s) == {s[k] : k \in DOMAIN s}

\* [x for x in s if x in cols]
RECURSIVE keep_in(_, _)
keep_in(s, cols) ==
    IF s = <<>> THEN <<>>
    ELSE IF Head(s) \in cols THEN <<Head(s)>> \o keep_in(Tail(s), cols)
    ELSE keep_in(Tail(s), cols)

\* list(set(s)): the distinct elements of s in the order the hash seed gives them
list_of_set(s, seed) == keep_in(seed, Range(s))

\* min(values) of a non-empty list
RECURSIVE min_of(_)
min_of(values) ==
    IF Len(values) = 1 THEN values[1]
    ELSE LET m == min_of(Tail(values))
         IN IF Head(values) <= m THEN Head(values) ELSE m

-----------------------------------------------------------------------------
(* The steps of one student (lines 131-165) *)

\* as stage_rank, the CRL rank taken for every category
stage_rank_always_crl(student_category, crl_rank, category_rank) == crl_rank

\* the rank of one stage: the CRL rank for category OC, else the category rank
stage_rank(student_category, crl_rank, category_rank) ==
    IF student_category = "OC" THEN crl_rank ELSE category_rank

\* as eligible_appends, a female student given her FEM column only
eligible_appends_fem_only(student_category, student_gender, columns) ==
    IF student_category \in DOMAIN category_to_cutoff_map
    THEN LET category_map == category_to_cutoff_map[student_category]
             own == IF student_gender = "FEM"
                    THEN keep_in(<<category_map.FEM>>, columns)
                    ELSE keep_in(<<category_map.GEN>>, columns)
             open == IF student_category # "OC"
                     THEN IF student_gender = "FEM"
                          THEN keep_in(<<"OC_GEN", "OC_FEM">>, columns)
                          ELSE keep_in(<<"OC_GEN">>, columns)
                     ELSE <<>>
         IN own \o open
    ELSE <<>>

\* as eligible_appends, the open fallback of a female student without OC_GEN
eligible_appends_open_fem_only(student_category, student_gender, columns) ==
    IF student_category \in DOMAIN category_to_cutoff_map
    THEN LET category_map == category_to_cutoff_map[student_category]
             own == IF student_gender = "FEM"
                    THEN keep_in(<<category_map.FEM, category_map.GEN>>, columns)
                    ELSE keep_in(<<category_map.GEN>>, columns)
             open == IF student_category # "OC"
                     THEN IF student_gender = "FEM"
                          THEN keep_in(<<"OC_FEM">>, columns)
                          ELSE keep_in(<<"OC_GEN">>, columns)
                     ELSE <<>>
         IN own \o open
    ELSE <<>>

\* as eligible_appends, a student of an unknown category given the open column
eligible_appends_open_fallback(student_category, student_gender, columns) ==
    IF student_category \in DOMAIN category_to_cutoff_map
    THEN LET category_map == category_to_cutoff_map[student_category]
             own == IF student_gender = "FEM"
                    THEN keep_in(<<category_map.FEM, category_map.GEN>>, columns)
                    ELSE keep_in(<<category_map.GEN>>, columns)
             open == IF student_category # "OC"
                     THEN IF student_gender = "FEM"
                          THEN keep_in(<<"OC_GEN", "OC_FEM">>, columns)
                          ELSE keep_in(<<"OC_GEN">>, columns)
                     ELSE <<>>
         IN own \o open
    ELSE keep_in(<<"OC_GEN">>, columns)

\* the labels appended to current_student_eligible_cutoff_cols, in append order
eligible_appends(student_category, student_gender, columns) ==
    IF student_category \in DOMAIN category_to_cutoff_map
    THEN LET category_map == category_to_cutoff_map[student_category]
             own == IF student_gender = "FEM"
                    THEN keep_in(<<category_map.FEM, category_map.GEN>>, columns)
                    ELSE keep_in(<<category_map.GEN>>, columns)
             open == IF student_category # "OC"
                     THEN IF student_gender = "FEM"
                          THEN keep_in(<<"OC_GEN", "OC_FEM">>, columns)
                          ELSE keep_in(<<"OC_GEN">>, columns)
                     ELSE <<>>
         IN own \o open
    ELSE <<>>

\* line 165: filtered by the sheet's columns, de-duplicated through set()
eligible_cutoff_cols(student_category, student_gender, columns, seed) ==
    list_of_set(keep_in(eligible_appends(student_category, student_gender, columns),
                        columns), seed)

-----------------------------------------------------------------------------
(* The steps of one (student, master row) pair (lines 168-224) *)

KnownTypes == {"IIT", "NIT", "IIIT", "GFTI"}

\* lines 173-183: the rank and the stage label of a master row's type
applicable_student_rank(college_type, adv_rank, mains_rank) ==
    IF college_type = "IIT" THEN adv_rank
    ELSE IF college_type \in {"NIT", "IIIT", "GFTI"} THEN mains_rank
    ELSE None

rank_type_used(college_type) ==
    IF college_type = "IIT" THEN "JEE Advanced Rank"
    ELSE IF college_type \in {"NIT", "IIIT", "GFTI"} THEN "JEE Mains Rank"
    ELSE "None"

\* as option_cutoffs_values, every cutoff column of the row taken
RECURSIVE cutoffs_values_of(_, _)
cutoffs_values_of(cols, college_option) ==
    IF cols = <<>> THEN <<>>
    ELSE IF Head(cols) \in DOMAIN college_option.cut /\ notna(college_option.cut[Head(cols)])
         THEN <<college_option.cut[Head(cols)]>> \o cutoffs_values_of(Tail(cols), college_option)
         ELSE cutoffs_values_of(Tail(cols), college_option)
option_cutoffs_values_all_columns(cols, college_option) ==
    cutoffs_values_of(all_cutoff_cols, college_option)

\* lines 191-193: the present cutoffs of the eligible columns, in list order
RECURSIVE option_cutoffs_values(_, _)
option_cutoffs_values(cols, college_option) ==
    IF cols = <<>> THEN <<>>
    ELSE IF Head(cols) \in DOMAIN college_option.cut /\ notna(college_option.cut[Head(cols)])
         THEN <<college_option.cut[Head(cols)]>> \o option_cutoffs_values(Tail(cols), college_option)
         ELSE option_cutoffs_values(Tail(cols), college_option)

\* as relevant_cutoffs_for_option_display, every cutoff column of the row listed
RECURSIVE display_of(_, _)
display_of(cols, college_option) ==
    IF cols = <<>> THEN <<>>
    ELSE IF Head(cols) \in DOMAIN college_option.cut /\ notna(college_option.cut[Head(cols)])
         THEN <<[col |-> Head(cols), value |-> fmt_int(college_option.cut[Head(cols)])]>>
              \o display_of(Tail(cols), college_option)
         ELSE display_of(Tail(cols), college_option)
relevant_cutoffs_for_option_display_all_columns(cols, college_option) ==
    display_of(all_cutoff_cols, college_option)

\* line 197: "col: value" of every eligible column with a present cutoff
RECURSIVE relevant_cutoffs_for_option_display(_, _)
relevant_cutoffs_for_option_display(cols, college_option) ==
    IF cols = <<>> THEN <<>>
    ELSE IF Head(cols) \in DOMAIN college_option.cut /\ notna(college_option.cut[Head(cols)])
         THEN <<[col |-> Head(cols), value |-> fmt_int(college_option.cut[Head(cols)])]>>
              \o relevant_cutoffs_for_option_display(Tail(cols), college_option)
         ELSE relevant_cutoffs_for_option_display(Tail(cols), college_option)

\* as best_eligible_cutoff_for_option, without the test that the rank is present
best_eligible_cutoff_rank_unchecked(rank, cols, college_option) ==
    LET values == option_cutoffs_values(cols, college_option)
    IN IF values # <<>> THEN min_of(values) ELSE None

\* as best_eligible_cutoff_for_option, no cutoff counted as the cutoff 0
best_eligible_cutoff_zero_default(rank, cols, college_option) ==
    IF rank # None /\ notna(rank)
    THEN LET values == option_cutoffs_values(cols, college_option)
         IN IF values # <<>> THEN min_of(values) ELSE 0
    ELSE None

\* lines 185-199
best_eligible_cutoff_for_option(rank, cols, college_option) ==
    IF rank # None /\ notna(rank)
    THEN LET values == option_cutoffs_values(cols, college_option)
         IN IF values # <<>> THEN min_of(values) ELSE None
    ELSE None

\* as seat_chance, a rank equal to the cutoff not admitted
seat_chance_strict(rank, best) ==
    IF best # None
    THEN IF rank < best THEN "LIKELY" ELSE "UNLIKELY"
    ELSE IF rank = None \/ ~notna(rank) THEN "N/A - Student Rank Missing"
    ELSE "N/A - No Cutoff"

\* lines 201-208
seat_chance(rank, best) ==
    IF best # None
    THEN IF rank <= best THEN "LIKELY" ELSE "UNLIKELY"
    ELSE IF rank = None \/ ~notna(rank) THEN "N/A - Student Rank Missing"
    ELSE "N/A - No Cutoff"

\* lines 197, 219, 221: int() of float inf raises OverflowError
int_raises(rank, cols, college_option) ==
    \/ /\ rank # None /\ notna(rank)
       /\ \E k \in DOMAIN cols :
            cols[k] \in DOMAIN college_option.cut /\ college_option.cut[cols[k]] = Inf
    \/ rank = Inf

\* lines 210-224
result_row(student_row, college_option, adv_rank, mains_rank, cols) ==
    LET rank == applicable_student_rank(college_option.TYPE, adv_rank, mains_rank)
        best == best_eligible_cutoff_for_option(rank, cols, college_option)
    IN [Student_ID |-> student_row.STUDENT_ID,
        Student_Category |-> student_row.CATEGORY,
        Student_Gender |-> student_row.GENDER,
        College_Type |-> college_option.TYPE,
        College_Code |-> college_option.COLLEGE_CODE,
        Course_Code |-> college_option.COURSE_CODE,
        Student_Rank_Used |-> fmt_int(rank),
        Rank_Type |-> rank_type_used(college_option.TYPE),
        Best_Eligible_Cutoff |-> fmt_int(best),
        Considered_Cutoffs_for_Option |->
            IF best # None THEN relevant_cutoffs_for_option_display(cols, college_option)
            ELSE <<>>,
        Seat_Chance |-> seat_chance(rank, best)]

-----------------------------------------------------------------------------
(* Loading and coercion (lines 36-58 and 75-96) *)

\* lines 54-56: every cutoff column of the sheet is coerced to numbers
preprocess_master(columns, raw_rows) ==
    [columns |-> columns,
     rows |-> [k \in DOMAIN raw_rows |->
                 [raw_rows[k] EXCEPT !.cut = [c \in columns |-> to_numeric(raw_rows[k].cut[c])]]]]

\* lines 94-96: the four rank columns are coerced to numbers
preprocess_students(raw_rows) ==
    [k \in DOMAIN raw_rows |->
        [raw_rows[k] EXCEPT
            !.JEE_ADVACED_CRL_RANK = to_numeric(@),
            !.JEE_ADVNCED_CATEGORY_RANK = to_numeric(@),
            !.JEE_MAIN_CRL_RANK = to_numeric(@),
            !.JEE_MAIN_CATEGORY_RANK = to_numeric(@)]]

required_master_cols == {"COLLEGE_CODE", "COURSE_CODE", "TYPE"}

required_student_cols ==
    {"NAME", "STUDENT_ID", "GENDER", "CATEGORY",
     "JEE_ADVACED_CRL_RANK", "JEE_ADVNCED_CATEGORY_RANK",
     "JEE_MAIN_CRL_RANK", "JEE_MAIN_CATEGORY_RANK"}

\* a readable master sheet: its normalised required headers, its cutoff columns, its text rows
MasterFile(headers, columns, raw_rows) ==
    [status |-> "ok", headers |-> headers, columns |-> columns, rows |-> raw_rows]

\* a readable student batch sheet: its normalised required headers and its text rows
BatchFile(headers, raw_rows) ==
    [status |-> "ok", headers |-> headers, rows |-> raw_rows]

NoMessage == [kind |-> "none", listed |-> {}, detected |-> {}]

NoDownload == [has |-> FALSE, rows |-> <<>>, master |-> <<>>, students |-> <<>>]

\* nothing is computed after the merge
InsightIdle ==
    /\ choice_numbers = <<>>
    /\ order_range = <<>>
    /\ sheet_header = <<>>
    /\ column_name = <<>>
    /\ student_rank = 1
    /\ student_category_input = "OC"
    /\ student_gender_pref = "GEN"
    /\ col_to_check = "None"
    /\ filtered_analysis_df = [columns |-> {}, rows |-> <<>>]

\* the single-student pages are not open
JoinIdle ==
    /\ InsightIdle
    /\ workflow = "none"
    /\ jpc = "idle"
    /\ student_df = <<>>
    /\ master_df = <<>>
    /\ merged_df = <<>>
    /\ reported = [unmatched |-> <<>>, duplicates |-> <<>>, notices |-> {}]

\* the page after line 104: both tables loaded, the button not yet handled
Loaded(columns, raw_master_rows, raw_student_rows, seed) ==
    /\ master_file = MasterFile(required_master_cols, columns, raw_master_rows)
    /\ student_batch_file = BatchFile(required_student_cols, raw_student_rows)
    /\ button = FALSE
    /\ message = NoMessage
    /\ downloaded_csv = NoDownload
    /\ JoinIdle
    /\ processed_master_df = preprocess_master(columns, raw_master_rows)
    /\ student_batch_df = preprocess_students(raw_student_rows)
    /\ hash_seed = seed
    /\ session_state = [has |-> FALSE, is_none |-> FALSE, df |-> <<>>]
    /\ pc = "button"
    /\ results_list = <<>>
    /\ idx = 0
    /\ opt = 0
    /\ current_student_adv_rank = None
    /\ current_student_mains_rank = None
    /\ current_student_eligible_cutoff_cols = <<>>

-----------------------------------------------------------------------------
(* The analysis run (lines 107-249) *)

\* as ClickRun, the new rows added to the rows stored before
ClickRun_appending ==
    /\ pc = "button"
    /\ session_state' = [has |-> TRUE, is_none |-> TRUE, df |-> <<>>]
    /\ results_list' = session_state.df
    /\ idx' = 0
    /\ pc' = "students"
    /\ button' = TRUE
    /\ UNCHANGED <<processed_master_df, student_batch_df, hash_seed, opt,
                   current_student_adv_rank, current_student_mains_rank,
                   current_student_eligible_cutoff_cols,
                   files, message, join_vars>>

\* lines 107-121: the button is clicked
ClickRun ==
    /\ pc = "button"
    /\ session_state' = [has |-> TRUE, is_none |-> TRUE, df |-> <<>>]
    /\ results_list' = <<>>
    /\ idx' = 0
    /\ pc' = "students"
    /\ button' = TRUE
    /\ UNCHANGED <<processed_master_df, student_batch_df, hash_seed, opt,
                   current_student_adv_rank, current_student_mains_rank,
                   current_student_eligible_cutoff_cols,
                   files, message, join_vars>>

\* as NextStudent, the eligible columns of the earlier students kept in the list
NextStudent_accumulating ==
    /\ pc = "students"
    /\ idx < Len(student_batch_df)
    /\ LET student_row == student_batch_df[idx + 1]
       IN /\ current_student_adv_rank' =
                stage_rank(student_row.CATEGORY, student_row.JEE_ADVACED_CRL_RANK,
                           student_row.JEE_ADVNCED_CATEGORY_RANK)
          /\ current_student_mains_rank' =
                stage_rank(student_row.CATEGORY, student_row.JEE_MAIN_CRL_RANK,
                           student_row.JEE_MAIN_CATEGORY_RANK)
          /\ current_student_eligible_cutoff_cols' =
                list_of_set(current_student_eligible_cutoff_cols
                            \o eligible_appends(student_row.CATEGORY, student_row.GENDER,
                                                processed_master_df.columns), hash_seed)
    /\ idx' = idx + 1
    /\ opt' = 0
    /\ pc' = "options"
    /\ UNCHANGED <<processed_master_df, student_batch_df, hash_seed, session_state,
                   results_list,
                   files, button, message, join_vars>>

\* lines 123-165: the next student row, its two ranks and its eligible columns
NextStudent ==
    /\ pc = "students"
    /\ idx < Len(student_batch_df)
    /\ LET student_row == student_batch_df[idx + 1]
       IN /\ current_student_adv_rank' =
                stage_rank(student_row.CATEGORY, student_row.JEE_ADVACED_CRL_RANK,
                           student_row.JEE_ADVNCED_CATEGORY_RANK)
          /\ current_student_mains_rank' =
                stage_rank(student_row.CATEGORY, student_row.JEE_MAIN_CRL_RANK,
                           student_row.JEE_MAIN_CATEGORY_RANK)
          /\ current_student_eligible_cutoff_cols' =
                eligible_cutoff_cols(student_row.CATEGORY, student_row.GENDER,
                                     processed_master_df.columns, hash_seed)
    /\ idx' = idx + 1
    /\ opt' = 0
    /\ pc' = "options"
    /\ UNCHANGED <<processed_master_df, student_batch_df, hash_seed, session_state,
                   results_list,
                   files, button, message, join_vars>>

\* as EvalOption, GFTI left out of the mains-stage types
EvalOption_without_gfti ==
    /\ pc = "options"
    /\ opt < Len(processed_master_df.rows)
    /\ LET college_option == processed_master_df.rows[opt + 1]
           known == college_option.TYPE = "IIT" \/ college_option.TYPE \in {"NIT", "IIIT"}
           raises == known /\ int_raises(applicable_student_rank(college_option.TYPE,
                                                                 current_student_adv_rank,
                                                                 current_student_mains_rank),
                                         current_student_eligible_cutoff_cols, college_option)
       IN /\ results_list' =
                IF known /\ ~raises
                THEN Append(results_list,
                            result_row(student_batch_df[idx], college_option,
                                       current_student_adv_rank, current_student_mains_rank,
                                       current_student_eligible_cutoff_cols))
                ELSE results_list
          /\ pc' = IF raises THEN "raised" ELSE pc
    /\ opt' = opt + 1
    /\ UNCHANGED <<processed_master_df, student_batch_df, hash_seed, session_state,
                   idx, current_student_adv_rank, current_student_mains_rank,
                   current_student_eligible_cutoff_cols,
                   files, button, message, join_vars>>

\* as EvalOption, the list rebuilt with the new row only
EvalOption_rewriting ==
    /\ pc = "options"
    /\ opt < Len(processed_master_df.rows)
    /\ LET college_option == processed_master_df.rows[opt + 1]
           known == college_option.TYPE = "IIT" \/ college_option.TYPE \in {"NIT", "IIIT", "GFTI"}
           raises == known /\ int_raises(applicable_student_rank(college_option.TYPE,
                                                                 current_student_adv_rank,
                                                                 current_student_mains_rank),
                                         current_student_eligible_cutoff_cols, college_option)
       IN /\ results_list' =
                IF known /\ ~raises
                THEN Append(<<>>,
                            result_row(student_batch_df[idx], college_option,
                                       current_student_adv_rank, current_student_mains_rank,
                                       current_student_eligible_cutoff_cols))
                ELSE results_list
          /\ pc' = IF raises THEN "raised" ELSE pc
    /\ opt' = opt + 1
    /\ UNCHANGED <<processed_master_df, student_batch_df, hash_seed, session_state,
                   idx, current_student_adv_rank, current_student_mains_rank,
                   current_student_eligible_cutoff_cols,
                   files, button, message, join_vars>>

\* lines 167-224: the next master row; a row of another type is passed over
EvalOption ==
    /\ pc = "options"
    /\ opt < Len(processed_master_df.rows)
    /\ LET college_option == processed_master_df.rows[opt + 1]
           known == college_option.TYPE = "IIT" \/ college_option.TYPE \in {"NIT", "IIIT", "GFTI"}
           raises == known /\ int_raises(applicable_student_rank(college_option.TYPE,
                                                                 current_student_adv_rank,
                                                                 current_student_mains_rank),
                                         current_student_eligible_cutoff_cols, college_option)
       IN /\ results_list' =
                IF known /\ ~raises
                THEN Append(results_list,
                            result_row(student_batch_df[idx], college_option,
                                       current_student_adv_rank, current_student_mains_rank,
                                       current_student_eligible_cutoff_cols))
                ELSE results_list
          /\ pc' = IF raises THEN "raised" ELSE pc
    /\ opt' = opt + 1
    /\ UNCHANGED <<processed_master_df, student_batch_df, hash_seed, session_state,
                   idx, current_student_adv_rank, current_student_mains_rank,
                   current_student_eligible_cutoff_cols,
                   files, button, message, join_vars>>

\* line 226: the master rows are exhausted, the progress bar moves on
EndStudent ==
    /\ pc = "options"
    /\ opt = Len(processed_master_df.rows)
    /\ pc' = "students"
    /\ UNCHANGED <<processed_master_df, student_batch_df, hash_seed, session_state,
                   results_list, idx, opt, current_student_adv_rank,
                   current_student_mains_rank, current_student_eligible_cutoff_cols,
                   files, button, message, join_vars>>

\* lines 228-231: the student rows are exhausted, the rows are stored
StoreResults ==
    /\ pc = "students"
    /\ idx = Len(student_batch_df)
    /\ session_state' = [has |-> TRUE, is_none |-> FALSE, df |-> results_list]
    /\ pc' = "display"
    /\ UNCHANGED <<processed_master_df, student_batch_df, hash_seed, results_list, idx,
                   opt, current_student_adv_rank, current_student_mains_rank,
                   current_student_eligible_cutoff_cols,
                   files, button, message, join_vars>>

\* lines 234-249: the stored table is shown when it has rows; None has no .empty
DisplayResults ==
    /\ pc = "display"
    /\ pc' = IF session_state.has /\ session_state.is_none
             THEN "raised"
             ELSE IF session_state.has /\ session_state.df # <<>>
             THEN "shown"
             ELSE "not_shown"
    /\ UNCHANGED <<processed_master_df, student_batch_df, hash_seed, session_state,
                   results_list, idx, opt, current_student_adv_rank,
                   current_student_mains_rank, current_student_eligible_cutoff_cols,
                   files, button, message, join_vars>>

Next ==
    \/ ClickRun
    \/ NextStudent
    \/ EvalOption
    \/ EndStudent
    \/ StoreResults
    \/ DisplayResults

-----------------------------------------------------------------------------
(* Inputs of the checked runs *)

\* text of a rank cell: blank, not a number, or a rank
RankCells == {"", "abc"} \cup {Numerals[n + 1] : n \in 1..MaxRank}

\* text of a cutoff cell: blank, not a number, or a closing rank
CutoffCells == {"", "n/a"} \cup {Numerals[n + 1] : n \in 1..MaxCutoff}

\* the two iteration orders of set() that are checked
HashSeeds == {all_cutoff_cols,
              [k \in 1..Len(all_cutoff_cols) |-> all_cutoff_cols[Len(all_cutoff_cols) + 1 - k]]}

StudentRows(ids, categories, genders, adv_cells, mains_cells) ==
    [STUDENT_ID : ids, CATEGORY : categories, GENDER : genders,
     JEE_ADVACED_CRL_RANK : adv_cells, JEE_ADVNCED_CATEGORY_RANK : adv_cells,
     JEE_MAIN_CRL_RANK : mains_cells, JEE_MAIN_CATEGORY_RANK : mains_cells]

MasterRows(codes, types, columns, cells) ==
    [COLLEGE_CODE : codes, COURSE_CODE : {"4110"}, TYPE : types, cut : [columns -> cells]]

\* sequences of at most n elements of S
SeqsUpTo(S, n) == UNION {[1..k -> S] : k \in 0..n}

\* one student against one master row, every cell varied
PairSchemas == {{"OC_GEN", "SC_GEN", "SC_FEM"}, {}}

InitPair ==
    \E columns \in PairSchemas, seed \in HashSeeds :
        \E student \in StudentRows({"S1"}, {"OC", "SC", "GEN"}, {"FEM", "GEN"},
                                   RankCells, {"", Numerals[MaxRank + 1]}),
           option \in MasterRows({"101"}, KnownTypes \cup {"OTHER"}, columns,
                                  CutoffCells \ {"n/a"}) :
            Loaded(columns, <<option>>, <<student>>, seed)

SpecPair == InitPair /\ [][Next]_vars

\* one student against every set of columns a master sheet can have
InitResolver ==
    \E columns \in SUBSET Range(all_cutoff_cols) :
        \E student \in StudentRows({"S1"}, {"OC", "EWS", "OBC", "SC", "ST", "GEN", ""},
                                   {"FEM", "GEN", ""}, {""}, {""}),
           option \in MasterRows({"101"}, {"IIT"}, columns, {""}) :
            Loaded(columns, <<option>>, <<student>>, all_cutoff_cols)

SpecResolver == InitResolver /\ [][Next]_vars

\* batches of several students against several master rows
InitBatch ==
    \E students \in SeqsUpTo(StudentRows({"S1", "S2"}, {"OC", "SC"}, {"GEN"},
                                         {"2"}, {"2"}), MaxStudents),
       options \in SeqsUpTo(MasterRows({"101"}, KnownTypes \cup {"OTHER"},
                                       {"OC_GEN"}, {"2"}), MaxOptions),
       seed \in HashSeeds :
        Loaded({"OC_GEN"}, options, students, seed)

Spec == InitBatch /\ [][Next]_vars

-----------------------------------------------------------------------------
(* Runs that vary the students of the batch and the spelling of the category *)

\* the columns and the two ranks of these runs
OrderColumns == {"OC_GEN", "SC_GEN", "SC_FEM"}
TwoRanks == {Numerals[2], Numerals[MaxRank + 1]}
TwoCutoffs == {Numerals[2], Numerals[MaxCutoff + 1]}

\* one or two students of category OC or SC, of either gender, against one IIT row
InitOrder ==
    \E students \in UNION {[1..n -> StudentRows({"S1"}, {"OC", "SC"}, {"FEM", "GEN"},
                                                TwoRanks, {""})] : n \in 1..2},
       option \in MasterRows({"101"}, {"IIT"}, OrderColumns, TwoCutoffs),
       seed \in HashSeeds :
        Loaded(OrderColumns, <<option>>, students, seed)

SpecOrder == InitOrder /\ [][Next]_vars

\* text of a CATEGORY cell: a category, or missing, another word, case or spacing
CategoryCells == {"OC", "SC", "", "GEN", "sc", "Sc", " SC", "SC ", "OBC-NCL"}

\* one student of any category spelling against one IIT or NIT row
InitCategory ==
    \E student \in StudentRows({"S1"}, CategoryCells, {"FEM", "GEN"},
                               {""} \cup TwoRanks, {"", Numerals[MaxRank + 1]}),
       option \in MasterRows({"101"}, {"IIT", "NIT"}, OrderColumns, TwoCutoffs) :
        Loaded(OrderColumns, <<option>>, <<student>>, all_cutoff_cols)

SpecCategory == InitCategory /\ [][Next]_vars

-----------------------------------------------------------------------------
(* Page runs of one browser session (lines 15-104 and 234-249) *)

\* line 27, 43, 62, 69, 90, 100: del st.session_state["analysis_results_df"]
deleted == [has |-> FALSE, is_none |-> FALSE, df |-> <<>>]

\* as without_results, the key left in the session
without_results_kept(state) == state

\* if "analysis_results_df" in st.session_state: del st.session_state["analysis_results_df"]
without_results(state) == deleted

\* the locals of a page run that has returned before the loop
ReturnedEarly(master, students) ==
    /\ processed_master_df' = master
    /\ student_batch_df' = students
    /\ button' = FALSE
    /\ results_list' = <<>>
    /\ idx' = 0
    /\ opt' = 0
    /\ current_student_adv_rank' = None
    /\ current_student_mains_rank' = None
    /\ current_student_eligible_cutoff_cols' = <<>>

not_loaded == [columns |-> {}, rows |-> <<>>]

\* the files a page run of the session may find
SessionColumns == {"OC_GEN", "SC_GEN"}

SessionMasterFiles ==
    {MasterFile(required_master_cols, SessionColumns, <<option>>) :
        option \in MasterRows({"101"}, {"IIT"}, SessionColumns, {Numerals[MaxCutoff + 1]})}
    \cup {MasterFile(required_master_cols \ {"TYPE"}, SessionColumns, <<>>),
          [status |-> "absent", headers |-> {}, columns |-> {}, rows |-> <<>>],
          [status |-> "unreadable", headers |-> {}, columns |-> {}, rows |-> <<>>]}

SessionBatchFiles ==
    {BatchFile(required_student_cols, students) :
        students \in {<<student>> : student \in StudentRows({"S1"}, {"OC", "SC"}, {"GEN"},
                                                            {Numerals[MaxRank + 1]}, {""})}}
    \cup {BatchFile(required_student_cols \ {"GENDER"}, <<>>),
          [status |-> "none", headers |-> {}, rows |-> <<>>],
          [status |-> "unreadable", headers |-> {}, rows |-> <<>>]}

\* a page run has ended and the next one may start
Ended == pc \in {"shown", "not_shown", "returned", "raised", "restarted", "interrupted"}

\* lines 15-104: the files are looked up, loaded, checked and coerced
PageLoad ==
    /\ Ended
    /\ \E mf \in SessionMasterFiles, bf \in SessionBatchFiles :
        /\ master_file' = mf
        /\ student_batch_file' = bf
        /\ IF mf.status = "absent"
           THEN /\ message' = [kind |-> "master_not_found", listed |-> {}, detected |-> {}]
                /\ session_state' = without_results(session_state)
                /\ pc' = "returned"
                /\ ReturnedEarly(not_loaded, <<>>)
           ELSE IF mf.status = "unreadable"
           THEN /\ message' = [kind |-> "master_error", listed |-> {}, detected |-> {}]
                /\ session_state' = without_results(session_state)
                /\ pc' = "returned"
                /\ ReturnedEarly(not_loaded, <<>>)
           ELSE IF ~(required_master_cols \subseteq mf.headers)
           THEN /\ message' = [kind |-> "master_schema",
                               listed |-> required_master_cols,
                               detected |-> mf.headers \cup mf.columns]
                /\ session_state' = without_results(session_state)
                /\ pc' = "returned"
                /\ ReturnedEarly(not_loaded, <<>>)
           ELSE IF bf.status = "none"
           THEN /\ message' = [kind |-> "upload_batch", listed |-> {}, detected |-> {}]
                /\ session_state' = without_results(session_state)
                /\ pc' = "returned"
                /\ ReturnedEarly(preprocess_master(mf.columns, mf.rows), <<>>)
           ELSE IF bf.status = "unreadable"
           THEN /\ message' = [kind |-> "batch_error", listed |-> {}, detected |-> {}]
                /\ session_state' = without_results(session_state)
                /\ pc' = "returned"
                /\ ReturnedEarly(preprocess_master(mf.columns, mf.rows), <<>>)
           ELSE IF ~(required_student_cols \subseteq bf.headers)
           THEN /\ message' = [kind |-> "batch_schema",
                               listed |-> required_student_cols,
                               detected |-> bf.headers]
                /\ session_state' = without_results(session_state)
                /\ pc' = "returned"
                /\ ReturnedEarly(preprocess_master(mf.columns, mf.rows), <<>>)
           ELSE /\ message' = NoMessage
                /\ session_state' = session_state
                /\ pc' = "button"
                /\ ReturnedEarly(preprocess_master(mf.columns, mf.rows),
                                 preprocess_students(bf.rows))
    /\ UNCHANGED <<hash_seed, downloaded_csv, join_vars>>

\* line 107: the page run in which the button was not clicked
SkipRun ==
    /\ pc = "button"
    /\ button' = FALSE
    /\ pc' = "display"
    /\ UNCHANGED <<processed_master_df, student_batch_df, hash_seed, session_state,
                   results_list, idx, opt, current_student_adv_rank,
                   current_student_mains_rank, current_student_eligible_cutoff_cols,
                   files, message, join_vars>>

\* lines 239-246: the shown table is taken as CSV
DownloadCsv ==
    /\ pc = "shown"
    /\ downloaded_csv' = [has |-> TRUE, rows |-> session_state.df,
                          master |-> master_file, students |-> student_batch_file]
    /\ downloaded_csv' # downloaded_csv
    /\ UNCHANGED <<processed_master_df, student_batch_df, hash_seed, session_state, pc,
                   results_list, idx, opt, current_student_adv_rank,
                   current_student_mains_rank, current_student_eligible_cutoff_cols,
                   master_file, student_batch_file, button, message, join_vars>>

\* lines 120-121, 129, 226: a widget is used while the analysis runs, and Streamlit
\* stops the script at its next st call, between two students
Interrupt ==
    /\ pc = "students"
    /\ pc' = "interrupted"
    /\ UNCHANGED <<processed_master_df, student_batch_df, hash_seed, session_state,
                   results_list, idx, opt, current_student_adv_rank,
                   current_student_mains_rank, current_student_eligible_cutoff_cols,
                   files, button, message, join_vars>>

\* the app is started again: a new interpreter with its own string hashing, an empty session
Restart ==
    /\ Ended
    /\ pc # "restarted"
    /\ hash_seed' \in HashSeeds
    /\ session_state' = deleted
    /\ pc' = "restarted"
    /\ UNCHANGED <<processed_master_df, student_batch_df, results_list, idx, opt,
                   current_student_adv_rank, current_student_mains_rank,
                   current_student_eligible_cutoff_cols,
                   files, button, message, join_vars>>

NextSession ==
    \/ PageLoad
    \/ SkipRun
    \/ ClickRun
    \/ NextStudent
    \/ EvalOption
    \/ EndStudent
    \/ StoreResults
    \/ DisplayResults
    \/ DownloadCsv
    \/ Interrupt
    \/ Restart

\* a session that starts with a first page run
InitSession ==
    /\ master_file \in SessionMasterFiles
    /\ student_batch_file \in SessionBatchFiles
    /\ hash_seed \in HashSeeds
    /\ session_state = deleted
    /\ pc = "restarted"
    /\ processed_master_df = not_loaded
    /\ student_batch_df = <<>>
    /\ button = FALSE
    /\ message = NoMessage
    /\ downloaded_csv = NoDownload
    /\ JoinIdle
    /\ results_list = <<>>
    /\ idx = 0
    /\ opt = 0
    /\ current_student_adv_rank = None
    /\ current_student_mains_rank = None
    /\ current_student_eligible_cutoff_cols = <<>>

SpecSession == InitSession /\ [][NextSession]_vars

-----------------------------------------------------------------------------
(* Runs over cells of every kind *)

\* text of a cell: blank, not a number, infinite, zero, or a positive number
AnyRankCells == RankCells \cup {"inf", "0"}
AnyCutoffCells == CutoffCells \cup {"inf", "0"}

\* one or two SC students against one or two IIT rows with the columns SC_GEN and OC_GEN
InitCells ==
    \E students \in UNION {[1..n -> StudentRows({"S1"}, {"SC"}, {"GEN"}, {""}, {""})] : n \in 1..2},
       adv_ranks \in UNION {[1..n -> AnyRankCells] : n \in 1..2},
       options \in UNION {[1..n -> MasterRows({"101"}, {"IIT"}, SessionColumns, AnyCutoffCells)]
                            : n \in 1..2} :
        /\ Len(adv_ranks) = Len(students)
        /\ Loaded(SessionColumns, options,
                  [k \in DOMAIN students |->
                      [students[k] EXCEPT !.JEE_ADVNCED_CATEGORY_RANK = adv_ranks[k]]],
                  all_cutoff_cols)

SpecCells == InitCells /\ [][Next]_vars

-----------------------------------------------------------------------------
(* The single-student pages: key, left merge and reports
   (verify_choice_filling.py, verify_choice_filling_structured.py, smart_insights.py) *)

\* a cell read with dtype=str: missing (NaN), or a text as its characters
NA == [isna |-> TRUE, str |-> <<>>]
Str(text) == [isna |-> FALSE, str |-> text]

RECURSIVE lstrip(_)
lstrip(text) ==
    IF text # <<>> /\ Head(text) = " " THEN lstrip(Tail(text)) ELSE text

RECURSIVE rstrip(_)
rstrip(text) ==
    IF text # <<>> /\ text[Len(text)] = " "
    THEN rstrip(SubSeq(text, 1, Len(text) - 1))
    ELSE text

\* Series.str.strip() of one cell: NaN stays NaN
str_strip(cell) == IF cell.isna THEN NA ELSE Str(rstrip(lstrip(cell.str)))

\* + of two object cells: NaN if either is NaN
str_add(a, b) == IF a.isna \/ b.isna THEN NA ELSE Str(a.str \o b.str)

\* df[college].str.strip() + "_" + df[course].str.strip()
main_code(college_code, course_code) ==
    str_add(str_add(str_strip(college_code), Str(<<"_">>)), str_strip(course_code))

\* the student rows with their Main_Code column
with_student_main_code(rows) ==
    [k \in DOMAIN rows |->
        [Choice_Number |-> rows[k].Choice_Number,
         College_Code |-> rows[k].College_Code,
         COURSE_CODE |-> rows[k].COURSE_CODE,
         Main_Code |-> main_code(rows[k].College_Code, rows[k].COURSE_CODE)]]

\* the master rows with their Main_Code column
with_master_main_code(rows) ==
    [k \in DOMAIN rows |->
        [COLLEGE_CODE |-> rows[k].COLLEGE_CODE,
         COURSE_CODE |-> rows[k].COURSE_CODE,
         PROGRAM |-> rows[k].PROGRAM,
         Main_Code |-> main_code(rows[k].COLLEGE_CODE, rows[k].COURSE_CODE)]]

\* the rows a left merge gives for one left row: one per right row of the same
\* key (NaN keys match each other), or one with the right columns missing
merge_row(left_row, right) ==
    LET SameKey(right_row) == right_row.Main_Code = left_row.Main_Code
        matches == SelectSeq(right, SameKey)
    IN IF matches = <<>>
       THEN <<[Choice_Number |-> left_row.Choice_Number,
               Main_Code |-> left_row.Main_Code,
               COLLEGE_CODE |-> NA,
               PROGRAM |-> NA]>>
       ELSE [k \in DOMAIN matches |->
               [Choice_Number |-> left_row.Choice_Number,
                Main_Code |-> left_row.Main_Code,
                COLLEGE_CODE |-> matches[k].COLLEGE_CODE,
                PROGRAM |-> matches[k].PROGRAM]]

\* pd.merge(student_df, master_df, on='Main_Code', how='left')
RECURSIVE merge(_, _)
merge(left, right) ==
    IF left = <<>> THEN <<>>
    ELSE merge_row(Head(left), right) \o merge(Tail(left), right)

\* Series.isin(values): NaN is in a list that holds NaN
isin(value, rows) == \E k \in DOMAIN rows : rows[k].Main_Code = value

\* student[~student['Main_Code'].isin(master['Main_Code'])]
missing_in_master(student, master) ==
    LET Missing(row) == ~isin(row.Main_Code, master)
    IN SelectSeq(student, Missing)

\* student[student.duplicated(subset='Main_Code', keep=False)]
duplicates(student) ==
    LET Repeated(row) ==
            Cardinality({k \in DOMAIN student : student[k].Main_Code = row.Main_Code}) > 1
    IN SelectSeq(student, Repeated)

\* merged_df[merged_df['PROGRAM'].isna()]
unmatched_df(merged) ==
    LET NoProgram(row) == row.PROGRAM.isna
    IN SelectSeq(merged, NoProgram)

Workflows == {"verify_choice", "dashboard", "smart_insights"}

\* the files are read, the keys are built, the tables are merged
LoadAndMerge ==
    /\ jpc = "loaded"
    /\ student_df' = with_student_main_code(student_df)
    /\ master_df' = with_master_main_code(master_df)
    /\ merged_df' = merge(with_student_main_code(student_df), with_master_main_code(master_df))
    /\ jpc' = "merged"
    /\ UNCHANGED <<processed_master_df, student_batch_df, hash_seed, session_state, pc,
                   results_list, idx, opt, current_student_adv_rank,
                   current_student_mains_rank, current_student_eligible_cutoff_cols,
                   files, button, message, workflow, reported, insight_vars>>

\* what the page shows about the join: the choice verifier lists the rows without
\* PROGRAM and fails on the column 'COURSE CODE', which the merge has renamed;
\* the dashboard lists the student rows whose key is not in the master and the
\* student rows of a repeated key; Smart Insights shows nothing about the join
Report ==
    /\ jpc = "merged"
    /\ reported' =
         IF workflow = "verify_choice"
         THEN [unmatched |-> <<>>,
               duplicates |-> <<>>,
               notices |-> IF unmatched_df(merged_df) # <<>>
                           THEN {"Unmatched Entries", "error"}
                           ELSE {}]
         ELSE IF workflow = "dashboard"
         THEN [unmatched |-> missing_in_master(student_df, master_df),
               duplicates |-> duplicates(student_df),
               notices |-> {"Validation Checks"}]
         ELSE [unmatched |-> <<>>, duplicates |-> <<>>, notices |-> {}]
    /\ jpc' = "reported"
    /\ UNCHANGED <<processed_master_df, student_batch_df, hash_seed, session_state, pc,
                   results_list, idx, opt, current_student_adv_rank,
                   current_student_mains_rank, current_student_eligible_cutoff_cols,
                   files, button, message, workflow, student_df, master_df, merged_df,
                   insight_vars>>

NextJoin ==
    \/ LoadAndMerge
    \/ Report

\* text of a code cell: missing, blank, a code, a code after a space
CollegeCodeCells == {NA, Str(<<" ">>), Str(<<"1">>), Str(<<" ", "1">>)}
CourseCodeCells == {NA, Str(<<"7">>)}
Programs == {Str(<<"A">>), Str(<<"B">>)}

\* one or two choices of a student against a master of one or two rows
InitJoin ==
    /\ workflow \in Workflows
    /\ jpc = "loaded"
    /\ \E choices \in UNION {[1..n -> [College_Code : CollegeCodeCells,
                                       COURSE_CODE : CourseCodeCells]] : n \in 1..2} :
         student_df = [k \in DOMAIN choices |->
                          [Choice_Number |-> k,
                           College_Code |-> choices[k].College_Code,
                           COURSE_CODE |-> choices[k].COURSE_CODE]]
    /\ master_df \in UNION {[1..n -> [COLLEGE_CODE : CollegeCodeCells,
                                      COURSE_CODE : CourseCodeCells,
                                      PROGRAM : Programs]] : n \in 1..2}
    /\ merged_df = <<>>
    /\ reported = [unmatched |-> <<>>, duplicates |-> <<>>, notices |-> {}]
    /\ InsightIdle
    /\ master_file = [status |-> "absent", headers |-> {}, columns |-> {}, rows |-> <<>>]
    /\ student_batch_file = [status |-> "none", headers |-> {}, rows |-> <<>>]
    /\ hash_seed = all_cutoff_cols
    /\ session_state = deleted
    /\ pc = "restarted"
    /\ processed_master_df = not_loaded
    /\ student_batch_df = <<>>
    /\ button = FALSE
    /\ message = NoMessage
    /\ downloaded_csv = NoDownload
    /\ results_list = <<>>
    /\ idx = 0
    /\ opt = 0
    /\ current_student_adv_rank = None
    /\ current_student_mains_rank = None
    /\ current_student_eligible_cutoff_cols = <<>>

SpecJoin == InitJoin /\ [][NextJoin]_vars

-----------------------------------------------------------------------------
(* Order ranges of a program group (verify_choice_filling_structured.py 307-330,
   406-420; smart_insights.py 371-382).  A text is a sequence of pieces: the
   numerals and the separators "-" and ", ". *)

MaxChoiceNumber == 6
MaxChoices == 5

\* the batch page is not open
BatchIdle ==
    /\ master_file = [status |-> "absent", headers |-> {}, columns |-> {}, rows |-> <<>>]
    /\ student_batch_file = [status |-> "none", headers |-> {}, rows |-> <<>>]
    /\ hash_seed = all_cutoff_cols
    /\ session_state = deleted
    /\ pc = "restarted"
    /\ processed_master_df = not_loaded
    /\ student_batch_df = <<>>
    /\ button = FALSE
    /\ message = NoMessage
    /\ downloaded_csv = NoDownload
    /\ results_list = <<>>
    /\ idx = 0
    /\ opt = 0
    /\ current_student_adv_rank = None
    /\ current_student_mains_rank = None
    /\ current_student_eligible_cutoff_cols = <<>>

\* x.dropna()
dropna(values) == SelectSeq(values, notna)

\* sorted(...): ascending, repeated numbers kept
RECURSIVE sorted(_)
sorted(values) ==
    IF values = <<>> THEN <<>>
    ELSE LET least == min_of(values)
             first == CHOOSE k \in DOMAIN values :
                          values[k] = least /\ \A j \in 1..(k - 1) : values[j] # least
         IN <<least>> \o sorted(SubSeq(values, 1, first - 1)
                                \o SubSeq(values, first + 1, Len(values)))

\* f"{start}-{end}" if start != end else f"{start}"
range_text(start, end) ==
    IF start # end THEN <<fmt_int(start), "-", fmt_int(end)>> ELSE <<fmt_int(start)>>

\* ", ".join(ranges)
RECURSIVE join(_, _)
join(sep, parts) ==
    IF parts = <<>> THEN <<>>
    ELSE IF Len(parts) = 1 THEN parts[1]
    ELSE parts[1] \o <<sep>> \o join(sep, Tail(parts))

\* the loop of split_ranges from index i on (i is one more than Python's index)
RECURSIVE split_ranges_loop(_, _, _, _)
split_ranges_loop(lst, i, start, ranges) ==
    IF i > Len(lst)
    THEN Append(ranges, range_text(start, lst[Len(lst)]))
    ELSE IF lst[i] # lst[i - 1] + 1
    THEN split_ranges_loop(lst, i + 1, lst[i], Append(ranges, range_text(start, lst[i - 1])))
    ELSE split_ranges_loop(lst, i + 1, start, ranges)

\* split_ranges of the dashboard
split_ranges(lst) ==
    IF lst = <<>> THEN <<>>
    ELSE join(", ", split_ranges_loop(lst, 2, lst[1], <<>>))

\* the loop of the copy of split_ranges in Smart Insights
RECURSIVE smart_insights_split_ranges_loop(_, _, _, _)
smart_insights_split_ranges_loop(lst, i, start, ranges) ==
    IF i > Len(lst)
    THEN Append(ranges, range_text(start, lst[Len(lst)]))
    ELSE IF lst[i] # lst[i - 1] + 1
    THEN smart_insights_split_ranges_loop(lst, i + 1, lst[i],
                                          Append(ranges, range_text(start, lst[i - 1])))
    ELSE smart_insights_split_ranges_loop(lst, i + 1, start, ranges)

\* the copy of split_ranges in Smart Insights, which nothing calls
smart_insights_split_ranges(lst) ==
    IF lst = <<>> THEN <<>>
    ELSE join(", ", smart_insights_split_ranges_loop(lst, 2, lst[1], <<>>))

\* the Order_Range aggregate of one program group
DisplayStudentOrderRanges ==
    /\ jpc = "grouped"
    /\ order_range' = split_ranges(sorted(dropna(choice_numbers)))
    /\ jpc' = "ranges_shown"
    /\ UNCHANGED <<processed_master_df, student_batch_df, hash_seed, session_state, pc,
                   results_list, idx, opt, current_student_adv_rank,
                   current_student_mains_rank, current_student_eligible_cutoff_cols,
                   files, button, message, workflow, student_df, master_df, merged_df,
                   reported, choice_numbers, sheet_header, column_name, student_rank,
                   student_category_input, student_gender_pref, col_to_check,
                   filtered_analysis_df>>

NextRanges == DisplayStudentOrderRanges

\* the 'Choice Number' cells of a group after to_numeric, in the file's order
InitRanges ==
    /\ workflow = "dashboard"
    /\ jpc = "grouped"
    /\ student_df = <<>>
    /\ master_df = <<>>
    /\ merged_df = <<>>
    /\ reported = [unmatched |-> <<>>, duplicates |-> <<>>, notices |-> {}]
    /\ choice_numbers \in SeqsUpTo({NaN} \cup (1..MaxChoiceNumber), MaxChoices)
    /\ order_range = <<>>
    /\ sheet_header = <<>>
    /\ column_name = <<>>
    /\ student_rank = 1
    /\ student_category_input = "OC"
    /\ student_gender_pref = "GEN"
    /\ col_to_check = "None"
    /\ filtered_analysis_df = [columns |-> {}, rows |-> <<>>]
    /\ BatchIdle

SpecRanges == InitRanges /\ [][NextRanges]_vars

-----------------------------------------------------------------------------
(* Smart Insights: the cutoff column of the student and the rank status of the
   options (smart_insights.py 54-65, 80-200) *)

\* lines 86-92
smart_insights_category_to_cutoff_map ==
    [c \in {"OC", "EWS", "OBC", "SC", "ST"} |->
        CASE c = "OC"  -> [FEM |-> "OC_FEM",  GEN |-> "OC_GEN"]
          [] c = "EWS" -> [FEM |-> "EWS_FEM", GEN |-> "EWS_GEN"]
          [] c = "OBC" -> [FEM |-> "OBC_FEM", GEN |-> "OBC_GEN"]
          [] c = "SC"  -> [FEM |-> "SC_FEM",  GEN |-> "SC_GEN"]
          [] c = "ST"  -> [FEM |-> "ST_FEM",  GEN |-> "ST_GEN"]]

\* TYPE of a choice that matched no master row
NoType == "NaN"

\* col_to_check = None
NoColumn == "None"

\* lines 57-63: the columns whose name holds FEM or GEN are coerced to numbers
coerce_numeric_fields(merged) ==
    [columns |-> merged.columns,
     rows |-> [k \in DOMAIN merged.rows |->
                  [TYPE |-> merged.rows[k].TYPE,
                   cut |-> [c \in merged.columns |-> to_numeric(merged.rows[k].cut[c])]]]]

\* col in merged_df.columns and pd.notna(merged_df[col]).any()
column_has_data(col, merged) ==
    /\ col \in merged.columns
    /\ \E k \in DOMAIN merged.rows : notna(merged.rows[k].cut[col])

\* as choose_col_to_check, the fallback being the open category's GEN column
choose_col_to_check_open_fallback(category, gender, merged) ==
    LET preferred_col == smart_insights_category_to_cutoff_map[category][gender]
    IN IF column_has_data(preferred_col, merged) THEN preferred_col
       ELSE IF column_has_data("OC_GEN", merged) THEN "OC_GEN"
       ELSE NoColumn

\* lines 102-130
choose_col_to_check(category, gender, merged) ==
    LET selected_category_map == smart_insights_category_to_cutoff_map[category]
        preferred_col == selected_category_map[gender]
        general_col == selected_category_map["GEN"]
    IN IF column_has_data(preferred_col, merged) THEN preferred_col
       ELSE IF column_has_data(general_col, merged) THEN general_col
       ELSE NoColumn

\* as rank_status, a rank equal to the cutoff being outside it
rank_status_strict(rank, x) ==
    IF notna(x) /\ (x = Inf \/ rank < x) THEN "Likely" ELSE "Unlikely"

\* line 154: "Likely" if pd.notna(x) and student_rank <= x else "Unlikely"
rank_status(rank, x) ==
    IF notna(x) /\ (x = Inf \/ rank <= x) THEN "Likely" ELSE "Unlikely"

\* lines 152-155: the columns Rank Fit and Rank Status
with_rank_status(rows, col, rank) ==
    [k \in DOMAIN rows |->
        [TYPE |-> rows[k].TYPE,
         cut |-> rows[k].cut,
         Rank_Fit |-> rows[k].cut[col],
         Rank_Status |-> rank_status(rank, rows[k].cut[col])]]

\* lines 136-137: ["All"] + list(merged_df['TYPE'].dropna().unique())
college_types(merged) ==
    {"All"} \cup ({merged.rows[k].TYPE : k \in DOMAIN merged.rows} \ {NoType})

\* lines 57-65
StoreMerged ==
    /\ jpc = "smart_merged"
    /\ merged_df' = coerce_numeric_fields(merged_df)
    /\ jpc' = "smart_stored"
    /\ UNCHANGED <<processed_master_df, student_batch_df, hash_seed, session_state, pc,
                   results_list, idx, opt, current_student_adv_rank,
                   current_student_mains_rank, current_student_eligible_cutoff_cols,
                   files, button, message, workflow, student_df, master_df, reported,
                   insight_vars>>

\* lines 96-130: the sidebar inputs and the column they select
ChooseColumn ==
    /\ jpc = "smart_stored"
    /\ \E rank \in 1..(MaxRank + 1), category \in {"OC", "SC"}, gender \in {"GEN", "FEM"} :
         /\ student_rank' = rank
         /\ student_category_input' = category
         /\ student_gender_pref' = gender
         /\ col_to_check' = choose_col_to_check(category, gender, merged_df)
    /\ jpc' = "chosen"
    /\ UNCHANGED <<processed_master_df, student_batch_df, hash_seed, session_state, pc,
                   results_list, idx, opt, current_student_adv_rank,
                   current_student_mains_rank, current_student_eligible_cutoff_cols,
                   files, button, message, workflow, student_df, master_df, merged_df,
                   reported, choice_numbers, order_range, sheet_header, column_name,
                   filtered_analysis_df>>

\* lines 133-145: the filter by college type
FilterType ==
    /\ jpc = "chosen"
    /\ \E selected_type \in college_types(merged_df) :
         filtered_analysis_df' =
             [columns |-> merged_df.columns,
              rows |-> IF selected_type = "All" THEN merged_df.rows
                       ELSE SelectSeq(merged_df.rows,
                                      LAMBDA row : row.TYPE = selected_type)]
    /\ jpc' = "filtered"
    /\ UNCHANGED <<processed_master_df, student_batch_df, hash_seed, session_state, pc,
                   results_list, idx, opt, current_student_adv_rank,
                   current_student_mains_rank, current_student_eligible_cutoff_cols,
                   files, button, message, workflow, student_df, master_df, merged_df,
                   reported, choice_numbers, order_range, sheet_header, column_name,
                   student_rank, student_category_input, student_gender_pref,
                   col_to_check>>

\* lines 148-200: with a column the rows get their status, and the detailed list
\* casts the column to int, which raises on inf; without a column a warning
RankFit ==
    /\ jpc = "filtered"
    /\ IF col_to_check # NoColumn
       THEN /\ filtered_analysis_df' =
                 [columns |-> filtered_analysis_df.columns,
                  rows |-> with_rank_status(filtered_analysis_df.rows, col_to_check,
                                            student_rank)]
            /\ \E selected_rank_status \in {"All", "Likely", "Unlikely"} :
                 LET display_rank_df ==
                         SelectSeq(filtered_analysis_df'.rows,
                                   LAMBDA row : selected_rank_status = "All"
                                                \/ row.Rank_Status = selected_rank_status)
                 IN jpc' = IF \E k \in DOMAIN display_rank_df :
                                  display_rank_df[k].cut[col_to_check] = Inf
                           THEN "smart_raised"
                           ELSE "analysed"
            /\ UNCHANGED reported
       ELSE /\ reported' = [reported EXCEPT !.notices = {"No matching cutoff column"}]
            /\ jpc' = "analysed"
            /\ UNCHANGED filtered_analysis_df
    /\ UNCHANGED <<processed_master_df, student_batch_df, hash_seed, session_state, pc,
                   results_list, idx, opt, current_student_adv_rank,
                   current_student_mains_rank, current_student_eligible_cutoff_cols,
                   files, button, message, workflow, student_df, master_df, merged_df,
                   choice_numbers, order_range, sheet_header, column_name,
                   student_rank, student_category_input, student_gender_pref,
                   col_to_check>>

NextInsights ==
    \/ StoreMerged
    \/ ChooseColumn
    \/ FilterType
    \/ RankFit

\* text of a cutoff cell of the master: not a number, a closing rank, "inf"
InsightCells == {"n/a", "inf"} \cup {Numerals[n + 1] : n \in 1..MaxCutoff}

InsightSchemas == {{"SC_GEN", "SC_FEM"}, {"OC_GEN", "SC_FEM"}, {"SC_GEN"}, {"SC_FEM"}, {}}

\* the rows of a merge over the columns: a matched choice carries the cells of
\* its master row, an unmatched choice carries a missing cell in every column
MergedRows(columns) ==
    [TYPE : {"IIT", "NIT"}, cut : [columns -> InsightCells]]
        \cup {[TYPE |-> NoType, cut |-> [c \in columns |-> ""]]}

\* one or two choices of a student, merged with the master (line 54)
InitInsights ==
    /\ workflow = "smart_insights"
    /\ jpc = "smart_merged"
    /\ student_df = <<>>
    /\ master_df = <<>>
    /\ \E columns \in InsightSchemas :
         \E rows \in UNION {[1..n -> MergedRows(columns)] : n \in 1..2} :
             merged_df = [columns |-> columns, rows |-> rows]
    /\ reported = [unmatched |-> <<>>, duplicates |-> <<>>, notices |-> {}]
    /\ InsightIdle
    /\ BatchIdle

SpecInsights == InitInsights /\ [][NextInsights]_vars

-----------------------------------------------------------------------------
(* Header normalisation of the loaded sheets (multi_student_analyzer.py 37, 80;
   verify_choice_filling_structured.py 43; smart_insights.py 43;
   verify_choice_filling.py 40-42).  A header is a sequence of pieces: words,
   the space " " and the underscore "_". *)

MaxHeaderPieces == 4

\* .str.upper() of one piece
upper_piece(piece) ==
    CASE piece = "College" -> "COLLEGE"
      [] piece = "Code" -> "CODE"
      [] OTHER -> piece

\* .str.upper()
str_upper(text) == [k \in DOMAIN text |-> upper_piece(text[k])]

\* .str.replace(' ', '_')
str_replace(text, old, new) == [k \in DOMAIN text |-> IF text[k] = old THEN new ELSE text[k]]

\* multi_student_analyzer.py line 37
multi_student_master_columns(header) ==
    str_replace(str_upper(rstrip(lstrip(header))), " ", "_")

\* multi_student_analyzer.py line 80
multi_student_batch_columns(header) ==
    str_replace(str_upper(rstrip(lstrip(header))), " ", "_")

\* verify_choice_filling_structured.py line 43
dashboard_master_columns(header) ==
    str_replace(str_upper(rstrip(lstrip(header))), " ", "_")

\* smart_insights.py line 43
smart_insights_master_columns(header) ==
    str_replace(str_upper(rstrip(lstrip(header))), " ", "_")

\* verify_choice_filling.py line 40
verify_choice_master_columns(header) == str_upper(rstrip(lstrip(header)))

\* the name under which a page looks up the college code of the master
college_code_column(page) ==
    IF page = "verify_choice" THEN <<"COLLEGE", " ", "CODE">>
    ELSE <<"COLLEGE", "_", "CODE">>

\* a page names a column of its master sheet
NormalizeMasterHeader ==
    /\ jpc = "master_read"
    /\ column_name' =
         CASE workflow = "batch" -> multi_student_master_columns(sheet_header)
           [] workflow = "dashboard" -> dashboard_master_columns(sheet_header)
           [] workflow = "smart_insights" -> smart_insights_master_columns(sheet_header)
           [] workflow = "verify_choice" -> verify_choice_master_columns(sheet_header)
    /\ jpc' = "master_named"
    /\ UNCHANGED <<processed_master_df, student_batch_df, hash_seed, session_state, pc,
                   results_list, idx, opt, current_student_adv_rank,
                   current_student_mains_rank, current_student_eligible_cutoff_cols,
                   files, button, message, workflow, student_df, master_df, merged_df,
                   reported, choice_numbers, order_range, sheet_header, student_rank,
                   student_category_input, student_gender_pref, col_to_check,
                   filtered_analysis_df>>

\* the batch page names a column of the student batch sheet
NormalizeBatchHeader ==
    /\ jpc = "students_read"
    /\ column_name' = multi_student_batch_columns(sheet_header)
    /\ jpc' = "students_named"
    /\ UNCHANGED <<processed_master_df, student_batch_df, hash_seed, session_state, pc,
                   results_list, idx, opt, current_student_adv_rank,
                   current_student_mains_rank, current_student_eligible_cutoff_cols,
                   files, button, message, workflow, student_df, master_df, merged_df,
                   reported, choice_numbers, order_range, sheet_header, student_rank,
                   student_category_input, student_gender_pref, col_to_check,
                   filtered_analysis_df>>

NextHeaders ==
    \/ NormalizeMasterHeader
    \/ NormalizeBatchHeader

HeaderPieces == {" ", "_", "College", "Code", "CODE"}

\* a header cell as typed, read by one of the four pages
InitHeaders ==
    /\ workflow \in {"batch", "dashboard", "smart_insights", "verify_choice"}
    /\ jpc \in IF workflow = "batch" THEN {"master_read", "students_read"}
               ELSE {"master_read"}
    /\ sheet_header \in SeqsUpTo(HeaderPieces, MaxHeaderPieces)
    /\ column_name = <<>>
    /\ student_df = <<>>
    /\ master_df = <<>>
    /\ merged_df = <<>>
    /\ reported = [unmatched |-> <<>>, duplicates |-> <<>>, notices |-> {}]
    /\ choice_numbers = <<>>
    /\ order_range = <<>>
    /\ student_rank = 1
    /\ student_category_input = "OC"
    /\ student_gender_pref = "GEN"
    /\ col_to_check = "None"
    /\ filtered_analysis_df = [columns |-> {}, rows |-> <<>>]
    /\ BatchIdle

SpecHeaders == InitHeaders /\ [][NextHeaders]_vars

-----------------------------------------------------------------------------
(* Vocabulary of the properties *)

\* the (student, master row) pair the inner loop has just handled
JustEvaluated == pc = "options" /\ opt >= 1
CurStudent == student_batch_df[idx]
CurOption == processed_master_df.rows[opt]
Emitting == CurOption.TYPE \in {"IIT", "NIT", "IIIT", "GFTI"}
LastRow == results_list[Len(results_list)]

\* every row built so far, stored or not
AllRows == Range(results_list) \cup Range(session_state.df)

\* the number a row shows in a numeric field
NumOf(text) == CHOOSE n \in 0..9 : Numerals[n + 1] = text

\* the rank cell the specification names for a pair
ClaimRank(student, option) ==
    IF option.TYPE = "IIT"
    THEN IF student.CATEGORY = "OC" THEN student.JEE_ADVACED_CRL_RANK
         ELSE student.JEE_ADVNCED_CATEGORY_RANK
    ELSE IF student.CATEGORY = "OC" THEN student.JEE_MAIN_CRL_RANK
         ELSE student.JEE_MAIN_CATEGORY_RANK

\* the present cutoffs of a master row in a set of columns
PresentCutoffs(option, cols) ==
    {option.cut[c] : c \in {d \in cols \cap DOMAIN option.cut : option.cut[d] # NaN}}

MinOfSet(S) == CHOOSE m \in S : \A x \in S : m <= x

\* the rows a run must have appended once it has handled master row opt of student idx
KnownRowsUpTo(n) ==
    Cardinality({k \in 1..n : processed_master_df.rows[k].TYPE \in {"IIT", "NIT", "IIIT", "GFTI"}})
ExpectedCount == (idx - 1) * KnownRowsUpTo(Len(processed_master_df.rows)) + KnownRowsUpTo(opt)

-----------------------------------------------------------------------------
(* C1 -- every emitted row is LIKELY exactly when its rank is present, its best
   eligible cutoff is present and rank <= best cutoff; a rank equal to the best
   cutoff is LIKELY and a present rank above a present best cutoff is UNLIKELY. *)
C1_LikelyIffRankWithinBest ==
    \A row \in AllRows :
        LET present == row.Student_Rank_Used # "N/A" /\ row.Best_Eligible_Cutoff # "N/A"
        IN /\ row.Seat_Chance = "LIKELY" <=>
                (present /\ NumOf(row.Student_Rank_Used) <= NumOf(row.Best_Eligible_Cutoff))
           /\ (present /\ NumOf(row.Student_Rank_Used) > NumOf(row.Best_Eligible_Cutoff))
                => row.Seat_Chance = "UNLIKELY"

C1_Witness ==
    \E row \in Range(results_list) :
        /\ row.Seat_Chance = "LIKELY"
        /\ row.Student_Rank_Used = row.Best_Eligible_Cutoff

-----------------------------------------------------------------------------
(* C2 -- for a pair with a rank present, the best eligible cutoff is the minimum
   of exactly the cutoffs present in the student's eligible columns, and the
   verdict follows from that minimum alone: values in the other columns of the
   master row, lower ones included, change neither. *)
C2_BestIsMinOfEligible ==
    (JustEvaluated /\ Emitting /\ ClaimRank(CurStudent, CurOption) # NaN) =>
        LET eligible == PresentCutoffs(CurOption, Range(current_student_eligible_cutoff_cols))
        IN /\ Len(results_list) = ExpectedCount
           /\ LastRow.Best_Eligible_Cutoff =
                IF eligible = {} THEN "N/A" ELSE Numerals[MinOfSet(eligible) + 1]
           /\ LastRow.Seat_Chance =
                IF eligible = {} THEN "N/A - No Cutoff"
                ELSE IF ClaimRank(CurStudent, CurOption) <= MinOfSet(eligible) THEN "LIKELY"
                ELSE "UNLIKELY"

\* a column outside the eligible set holds a lower cutoff than every eligible one
C2_Witness ==
    /\ JustEvaluated /\ Emitting /\ ClaimRank(CurStudent, CurOption) # NaN
    /\ LET eligible == PresentCutoffs(CurOption, Range(current_student_eligible_cutoff_cols))
           others == PresentCutoffs(CurOption, processed_master_df.columns
                                               \ Range(current_student_eligible_cutoff_cols))
       IN /\ eligible # {} /\ others # {}
          /\ MinOfSet(others) < MinOfSet(eligible)
          /\ LastRow.Seat_Chance = "LIKELY"

-----------------------------------------------------------------------------
(* C3 -- a rank within the cutoff of at least one eligible column present at the
   option gives the verdict LIKELY. *)
C3_AnyEligiblePathSuffices ==
    (JustEvaluated /\ Emitting /\ ClaimRank(CurStudent, CurOption) # NaN) =>
        ((\E cutoff \in PresentCutoffs(CurOption, Range(current_student_eligible_cutoff_cols)) :
                ClaimRank(CurStudent, CurOption) <= cutoff)
            => LastRow.Seat_Chance = "LIKELY")

-----------------------------------------------------------------------------
(* Vocabulary of the resolver's properties *)

ClaimCategories == {"OC", "EWS", "OBC", "SC", "ST"}

GenColumnOf(category) ==
    CASE category = "OC" -> "OC_GEN" [] category = "EWS" -> "EWS_GEN"
      [] category = "OBC" -> "OBC_GEN" [] category = "SC" -> "SC_GEN"
      [] category = "ST" -> "ST_GEN"

FemColumnOf(category) ==
    CASE category = "OC" -> "OC_FEM" [] category = "EWS" -> "EWS_FEM"
      [] category = "OBC" -> "OBC_FEM" [] category = "SC" -> "SC_FEM"
      [] category = "ST" -> "ST_FEM"

\* the columns the policy grants a category and gender, whatever the sheet holds
ClaimEligible(category, gender) ==
    {GenColumnOf(category)}
    \cup (IF gender = "FEM" THEN {FemColumnOf(category)} ELSE {})
    \cup (IF category # "OC" THEN {"OC_GEN"} ELSE {})
    \cup (IF category # "OC" /\ gender = "FEM" THEN {"OC_FEM"} ELSE {})

\* the resolver has run for the student of row idx
Resolved == pc = "options"
ResolvedSet == Range(current_student_eligible_cutoff_cols)

-----------------------------------------------------------------------------
(* C4 -- for each of the five categories, every gender and every set of master
   columns, the resolver returns without duplicates exactly the granted columns
   that the master sheet has: the category's GEN column, its FEM column iff the
   gender is FEM, OC_GEN iff the category is not OC, OC_FEM iff the category is
   not OC and the gender is FEM. *)
C4_ResolverGrantedColumns ==
    (Resolved /\ CurStudent.CATEGORY \in ClaimCategories) =>
        /\ ResolvedSet = ClaimEligible(CurStudent.CATEGORY, CurStudent.GENDER)
                            \cap processed_master_df.columns
        /\ Len(current_student_eligible_cutoff_cols) = Cardinality(ResolvedSet)

\* a reserved female student on a sheet that lacks one of her four columns
C4_Witness ==
    /\ Resolved
    /\ CurStudent.CATEGORY = "OBC" /\ CurStudent.GENDER = "FEM"
    /\ "OBC_FEM" \notin processed_master_df.columns
    /\ ResolvedSet = {"OBC_GEN", "OC_GEN", "OC_FEM"}

-----------------------------------------------------------------------------
(* C5 -- a student of category OC, of any gender and on any master sheet, has
   eligible columns within {OC_GEN, OC_FEM} and none of EWS, OBC, SC or ST. *)
C5_OpenCategoryOnlyOpenColumns ==
    (Resolved /\ CurStudent.CATEGORY = "OC") =>
        /\ ResolvedSet \subseteq {"OC_GEN", "OC_FEM"}
        /\ ResolvedSet \cap {"EWS_GEN", "EWS_FEM", "OBC_GEN", "OBC_FEM",
                             "SC_GEN", "SC_FEM", "ST_GEN", "ST_FEM"} = {}

\* an OC student on a sheet that has columns of every category
C5_Witness ==
    /\ Resolved
    /\ CurStudent.CATEGORY = "OC" /\ CurStudent.GENDER = "FEM"
    /\ processed_master_df.columns = Range(all_cutoff_cols)
    /\ ResolvedSet = {"OC_GEN", "OC_FEM"}

-----------------------------------------------------------------------------
(* C6 -- as claimed: every student with category other than OC and gender FEM
   has OC_GEN among the eligible columns. *)
C6_ReservedFemaleAlwaysHasOpenGen ==
    (Resolved /\ CurStudent.CATEGORY # "OC" /\ CurStudent.GENDER = "FEM") =>
        "OC_GEN" \in ResolvedSet

(* C6 -- as amended: every student whose category is one of EWS, OBC, SC, ST and
   whose gender is FEM has OC_GEN among the eligible columns whenever the master
   sheet has an OC_GEN column. *)
C6_ReservedFemaleHasOpenGenIfInSheet ==
    (/\ Resolved
     /\ CurStudent.CATEGORY \in {"EWS", "OBC", "SC", "ST"}
     /\ CurStudent.GENDER = "FEM"
     /\ "OC_GEN" \in processed_master_df.columns) =>
        "OC_GEN" \in ResolvedSet

\* a reserved female student whose own columns are missing from the sheet
C6_Witness ==
    /\ Resolved
    /\ CurStudent.CATEGORY = "ST" /\ CurStudent.GENDER = "FEM"
    /\ processed_master_df.columns = {"OC_GEN"}
    /\ ResolvedSet = {"OC_GEN"}

-----------------------------------------------------------------------------
(* C7 -- every emitted row shows exactly one rank: the advanced-stage rank for
   type IIT and the mains-stage rank for NIT, IIIT and GFTI, within the stage the
   CRL rank iff the category is OC and else the category rank; Rank_Type names
   the stage that was used. *)
C7_RankOfStageAndCategory ==
    (JustEvaluated /\ Emitting) =>
        /\ Len(results_list) = ExpectedCount
        /\ LastRow.Rank_Type =
                IF CurOption.TYPE = "IIT" THEN "JEE Advanced Rank" ELSE "JEE Mains Rank"
        /\ LastRow.Student_Rank_Used =
                IF ClaimRank(CurStudent, CurOption) = NaN THEN "N/A"
                ELSE Numerals[ClaimRank(CurStudent, CurOption) + 1]

\* a reserved student at a mains-stage institute whose CRL rank cells differ from
\* the category rank cells, and whose advanced rank differs from the mains rank
C7_Witness ==
    /\ JustEvaluated /\ Emitting
    /\ CurOption.TYPE = "GFTI" /\ CurStudent.CATEGORY = "SC"
    /\ CurStudent.JEE_MAIN_CRL_RANK = NaN
    /\ CurStudent.JEE_MAIN_CATEGORY_RANK = 2
    /\ CurStudent.JEE_ADVNCED_CATEGORY_RANK = 1
    /\ LastRow.Student_Rank_Used = "2"
    /\ LastRow.Rank_Type = "JEE Mains Rank"

-----------------------------------------------------------------------------
(* C8 -- a pair of a known type whose applicable rank is absent still gets its
   row, with the verdict "Student Rank Missing" whatever cutoffs the master row
   has, and without a best eligible cutoff. *)
C8_MissingRankStillEmitted ==
    (JustEvaluated /\ Emitting /\ ClaimRank(CurStudent, CurOption) = NaN) =>
        /\ Len(results_list) = ExpectedCount
        /\ LastRow.Student_ID = CurStudent.STUDENT_ID
        /\ LastRow.College_Type = CurOption.TYPE
        /\ LastRow.Seat_Chance = "N/A - Student Rank Missing"
        /\ LastRow.Best_Eligible_Cutoff = "N/A"

\* the rank is missing although the master row has a cutoff in an eligible column
C8_Witness ==
    /\ JustEvaluated /\ Emitting /\ ClaimRank(CurStudent, CurOption) = NaN
    /\ PresentCutoffs(CurOption, ResolvedSet) # {}
    /\ LastRow.Seat_Chance = "N/A - Student Rank Missing"

-----------------------------------------------------------------------------
(* C9 -- an emitted row has the verdict "No Cutoff" exactly when the applicable
   rank is present and no eligible column has a present cutoff at the master row
   (an empty eligible set included); the row is emitted and its best eligible
   cutoff is absent. *)
C9_NoCutoffIffNothingEligiblePresent ==
    (JustEvaluated /\ Emitting) =>
        /\ Len(results_list) = ExpectedCount
        /\ LastRow.Seat_Chance = "N/A - No Cutoff" <=>
                (/\ ClaimRank(CurStudent, CurOption) # NaN
                 /\ PresentCutoffs(CurOption, ResolvedSet) = {})
        /\ LastRow.Seat_Chance = "N/A - No Cutoff" => LastRow.Best_Eligible_Cutoff = "N/A"

\* the resolver returned no column while the master row has cutoffs
C9_Witness ==
    /\ JustEvaluated /\ Emitting
    /\ current_student_eligible_cutoff_cols = <<>>
    /\ PresentCutoffs(CurOption, processed_master_df.columns) # {}
    /\ ClaimRank(CurStudent, CurOption) # NaN
    /\ LastRow.Seat_Chance = "N/A - No Cutoff"

-----------------------------------------------------------------------------
(* C10 -- a completed run over N student rows and a master table with M rows of
   type IIT, NIT, IIIT or GFTI stores exactly N*M rows: one per (student, row of
   such a type), none for a row of another type, in student order and within a
   student in master order. *)
IsKnownRow(row) == row.TYPE \in {"IIT", "NIT", "IIIT", "GFTI"}

C10_RowPerKnownPairInOrder ==
    pc \in {"display", "shown", "not_shown"} =>
        LET N == Len(student_batch_df)
            known == SelectSeq(processed_master_df.rows, IsKnownRow)
            M == Len(known)
            df == session_state.df
        IN /\ session_state.has /\ ~session_state.is_none
           /\ Len(df) = N * M
           /\ \A k \in 1..(N * M) :
                LET student == student_batch_df[((k - 1) \div M) + 1]
                    option == known[((k - 1) % M) + 1]
                IN /\ df[k].Student_ID = student.STUDENT_ID
                   /\ df[k].Student_Category = student.CATEGORY
                   /\ df[k].College_Type = option.TYPE
                   /\ df[k].College_Code = option.COLLEGE_CODE

\* two different students, a master with rows of a known and of another type
C10_Witness ==
    /\ pc = "display"
    /\ Len(student_batch_df) = 2
    /\ student_batch_df[1] # student_batch_df[2]
    /\ Len(processed_master_df.rows) = 2
    /\ processed_master_df.rows[1].TYPE = "OTHER"
    /\ processed_master_df.rows[2].TYPE = "GFTI"
    /\ Len(session_state.df) = 2

-----------------------------------------------------------------------------
(* C11 -- a run on the master and student files of an earlier run stores the
   rows the earlier run gave, field for field and in the same order, the labels
   of Considered_Cutoffs_for_Option included. *)
C11_RerunIdentical ==
    (/\ pc = "display" /\ button
     /\ downloaded_csv.has
     /\ downloaded_csv.master = master_file
     /\ downloaded_csv.students = student_batch_file)
        => session_state.df = downloaded_csv.rows

-----------------------------------------------------------------------------
(* C12 -- whatever the cells of a student row or a master row hold, the
   evaluation of a pair does not raise: the run goes on to the later pairs and
   students and is never stopped inside the loop. *)
C12_PairNeverRaises ==
    ~(pc = "raised" /\ opt >= 1)

-----------------------------------------------------------------------------
(* Vocabulary of the properties of cells *)

\* the text of the rank cell the specification names for the current pair
ClaimRankCell ==
    LET student == student_batch_file.rows[idx]
    IN IF CurOption.TYPE = "IIT"
       THEN IF student.CATEGORY = "OC" THEN student.JEE_ADVACED_CRL_RANK
            ELSE student.JEE_ADVNCED_CATEGORY_RANK
       ELSE IF student.CATEGORY = "OC" THEN student.JEE_MAIN_CRL_RANK
            ELSE student.JEE_MAIN_CATEGORY_RANK

\* the text of a cutoff cell of the current master row
ClaimCutoffCell(col) == master_file.rows[opt].cut[col]

PositiveNumerals == {Numerals[n + 1] : n \in 1..9}

Decided == LastRow.Seat_Chance \in {"LIKELY", "UNLIKELY"}

(* C13 -- a rank or cutoff cell that is blank or not a number never takes part
   in a verdict LIKELY or UNLIKELY and is never the best eligible cutoff, and
   every rank and cutoff that is compared is a positive integer. *)
C13_ComparedArePositiveIntegers ==
    (JustEvaluated /\ Emitting) =>
        /\ ClaimRankCell \in {"", "abc"} => ~Decided
        /\ (\A col \in Range(current_student_eligible_cutoff_cols) :
                ClaimCutoffCell(col) \in {"", "n/a"}) => ~Decided
        /\ LastRow.Best_Eligible_Cutoff # "N/A" =>
                \E col \in Range(current_student_eligible_cutoff_cols) :
                    ClaimCutoffCell(col) = LastRow.Best_Eligible_Cutoff
        /\ Decided =>
                /\ LastRow.Student_Rank_Used \in PositiveNumerals
                /\ \A k \in DOMAIN LastRow.Considered_Cutoffs_for_Option :
                        LastRow.Considered_Cutoffs_for_Option[k].value \in PositiveNumerals

-----------------------------------------------------------------------------
(* Vocabulary of the properties of page runs *)

MasterSchemaError ==
    master_file.status = "ok" /\ ~(required_master_cols \subseteq master_file.headers)

MasterInvalid == master_file.status \in {"absent", "unreadable"} \/ MasterSchemaError

BatchSchemaError ==
    /\ ~MasterInvalid
    /\ student_batch_file.status = "ok"
    /\ ~(required_student_cols \subseteq student_batch_file.headers)

BatchFailures == {"upload_batch", "batch_error", "batch_schema"}

NothingEvaluated == results_list = <<>> /\ idx = 0 /\ opt = 0

(* C14 -- when a required column is absent from the master or from the student
   batch after header normalization, the page run returns before any pair is
   evaluated, no result row is produced, and the error shown lists the columns
   that are missing together with the columns that were detected. *)
C14_SchemaErrorListsMissing ==
    /\ (pc # "restarted" /\ MasterSchemaError) =>
            /\ pc = "returned" /\ NothingEvaluated
            /\ message.kind = "master_schema"
            /\ message.listed = required_master_cols \ master_file.headers
            /\ message.detected = master_file.headers \cup master_file.columns
    /\ (pc # "restarted" /\ BatchSchemaError) =>
            /\ pc = "returned" /\ NothingEvaluated
            /\ message.kind = "batch_schema"
            /\ message.listed = required_student_cols \ student_batch_file.headers
            /\ message.detected = student_batch_file.headers

-----------------------------------------------------------------------------
(* C15 -- a page run that fails on the student batch file (not supplied,
   unreadable, a required column missing) while the master is valid leaves the
   result table stored by the earlier run in the session. *)
C15_BatchFailureKeepsResults ==
    [][(/\ Ended /\ pc' = "returned" /\ message'.kind \in BatchFailures
        /\ session_state.has /\ ~session_state.is_none)
            => session_state' = session_state]_vars

-----------------------------------------------------------------------------
(* C16 -- after a page run that found the master file absent, unreadable or
   without a required column, no result table is in the session and the run
   has returned without showing one. *)
C16_InvalidMasterClearsResults ==
    MasterInvalid => (~session_state.has /\ pc \in {"returned", "restarted"})

\* results were shown earlier in the session, then the master lost a required column
C16_Witness ==
    /\ MasterSchemaError
    /\ pc = "returned"
    /\ message.kind = "master_schema"
    /\ downloaded_csv.has

-----------------------------------------------------------------------------
(* C17 -- when a run has ended, the stored table is exactly the rows of that
   run: one row per student and master row of a known type of the tables the
   run read, in order, and no row of an earlier run. *)
C17_StoredIsLastRun ==
    (pc \in {"display", "shown", "not_shown"} /\ button) =>
        LET N == Len(student_batch_df)
            known == SelectSeq(processed_master_df.rows, IsKnownRow)
            M == Len(known)
        IN /\ session_state.has /\ ~session_state.is_none
           /\ session_state.df = results_list
           /\ Len(session_state.df) = N * M
           /\ \A k \in 1..Len(session_state.df) :
                LET student == student_batch_df[((k - 1) \div M) + 1]
                IN /\ session_state.df[k].Student_ID = student.STUDENT_ID
                   /\ session_state.df[k].Student_Category = student.CATEGORY

\* a second run, on another batch than the run whose table was downloaded
C17_Witness ==
    /\ pc = "shown" /\ button
    /\ downloaded_csv.has
    /\ downloaded_csv.students # student_batch_file
    /\ downloaded_csv.rows # session_state.df

-----------------------------------------------------------------------------
(* Vocabulary of the properties of the join *)

\* the student choices whose key is the key of no master row
UnmatchedChoices ==
    {k \in DOMAIN student_df :
        \A j \in DOMAIN master_df : master_df[j].Main_Code # student_df[k].Main_Code}

\* the keys that two or more master rows have
RepeatedMasterKeys ==
    {master_df[i].Main_Code : i \in {i \in DOMAIN master_df :
        \E j \in DOMAIN master_df : j # i /\ master_df[j].Main_Code = master_df[i].Main_Code}}

\* trim(code), the empty text for a missing code
Trimmed(cell) == rstrip(lstrip(cell.str))

\* the key the specification gives a row
ClaimKey(college_code, course_code) ==
    Str(Trimmed(college_code) \o <<"_">> \o Trimmed(course_code))

(* C18 -- in each single-student page, every student choice whose Main_Code is
   the key of no master row is a row of the merged table and is listed among
   the unmatched entries the page reports. *)
C18_UnmatchedKeptAndListed ==
    jpc = "reported" =>
        \A k \in UnmatchedChoices :
            /\ \E m \in DOMAIN merged_df : merged_df[m].Choice_Number = k
            /\ \E u \in DOMAIN reported.unmatched : reported.unmatched[u].Choice_Number = k

-----------------------------------------------------------------------------
(* C19 -- when two or more master rows have the same Main_Code, the page flags
   that key to the user. *)
C19_RepeatedMasterKeyFlagged ==
    jpc = "reported" =>
        \A key \in RepeatedMasterKeys :
            \E d \in DOMAIN reported.duplicates : reported.duplicates[d].Main_Code = key

-----------------------------------------------------------------------------
(* C20 -- on the student table and on the master table the key of a row is
   trim(college code), an underscore, trim(course code); a missing or blank
   code gives an empty segment, never a missing key. *)
C20_KeyIsTrimmedCodes ==
    jpc \in {"merged", "reported"} =>
        /\ \A k \in DOMAIN student_df :
                student_df[k].Main_Code =
                    ClaimKey(student_df[k].College_Code, student_df[k].COURSE_CODE)
        /\ \A j \in DOMAIN master_df :
                master_df[j].Main_Code =
                    ClaimKey(master_df[j].COLLEGE_CODE, master_df[j].COURSE_CODE)

-----------------------------------------------------------------------------
(* C23 -- in every emitted row Considered_Cutoffs_for_Option lists, once each
   and with the number of its cell, exactly the eligible columns of the student
   whose cutoff is present at the option when the rank is present (nothing when
   the rank is missing); every listed column is eligible, and a present
   Best_Eligible_Cutoff is the minimum of the listed values. *)
C23_ConsideredAreEligiblePresent ==
    (JustEvaluated /\ Emitting) =>
        LET listed == LastRow.Considered_Cutoffs_for_Option
            labels == {listed[k].col : k \in DOMAIN listed}
            eligible == Range(current_student_eligible_cutoff_cols)
        IN /\ labels \subseteq eligible
           /\ Cardinality(labels) = Len(listed)
           /\ labels = IF ClaimRank(CurStudent, CurOption) # NaN
                       THEN {col \in eligible : CurOption.cut[col] # NaN}
                       ELSE {}
           /\ \A k \in DOMAIN listed : NumOf(listed[k].value) = CurOption.cut[listed[k].col]
           /\ LastRow.Best_Eligible_Cutoff # "N/A" =>
                /\ listed # <<>>
                /\ \E k \in DOMAIN listed : listed[k].value = LastRow.Best_Eligible_Cutoff
                /\ \A k \in DOMAIN listed :
                        NumOf(LastRow.Best_Eligible_Cutoff) <= NumOf(listed[k].value)

\* two columns listed, a third eligible column without cutoff, a column outside the set with one
C23_Witness ==
    /\ JustEvaluated /\ Emitting
    /\ Len(LastRow.Considered_Cutoffs_for_Option) = 2
    /\ LastRow.Considered_Cutoffs_for_Option[1].value # LastRow.Considered_Cutoffs_for_Option[2].value
    /\ \E col \in processed_master_df.columns :
            /\ col \notin Range(current_student_eligible_cutoff_cols)
            /\ CurOption.cut[col] # NaN

-----------------------------------------------------------------------------
(* C24 -- from the click to the storing of the results no step changes the
   loaded master table or student batch table or the files they came from, and
   every row once appended stays in its place unchanged; the table stored is
   the list of those rows. *)
C24_RunOnlyAppendsRows ==
    [][(pc \in {"button", "students", "options"}) =>
            /\ processed_master_df' = processed_master_df
            /\ student_batch_df' = student_batch_df
            /\ master_file' = master_file
            /\ student_batch_file' = student_batch_file
            /\ Len(results_list') >= Len(results_list)
            /\ \A k \in 1..Len(results_list) : results_list'[k] = results_list[k]
            /\ pc' = "display" => session_state'.df = results_list]_vars

\* a run that has stored the rows of two students and two master rows
C24_Witness ==
    /\ pc = "display"
    /\ Len(student_batch_df) = 2
    /\ Len(session_state.df) = 4
    /\ session_state.df[1] # session_state.df[4]

-----------------------------------------------------------------------------
(* C26 -- the rows stored for a student are the rows that student's own row
   gives against the master rows: whatever other students are in the batch and
   wherever the student stands, the block of student k is a function of row k,
   of the master rows and of the columns of the master. *)
AloneRows(student) ==
    LET cols == eligible_cutoff_cols(student.CATEGORY, student.GENDER,
                                     processed_master_df.columns, hash_seed)
        adv == stage_rank(student.CATEGORY, student.JEE_ADVACED_CRL_RANK,
                          student.JEE_ADVNCED_CATEGORY_RANK)
        mains == stage_rank(student.CATEGORY, student.JEE_MAIN_CRL_RANK,
                            student.JEE_MAIN_CATEGORY_RANK)
        known == SelectSeq(processed_master_df.rows, IsKnownRow)
    IN [j \in DOMAIN known |-> result_row(student, known[j], adv, mains, cols)]

C26_RowsOfStudentAlone ==
    pc \in {"display", "shown", "not_shown"} =>
        LET N == Len(student_batch_df)
            M == Len(SelectSeq(processed_master_df.rows, IsKnownRow))
        IN /\ Len(session_state.df) = N * M
           /\ \A k \in 1..N : \A j \in 1..M :
                session_state.df[(k - 1) * M + j] = AloneRows(student_batch_df[k])[j]

\* an SC woman before an OC man: the second block lists fewer columns than the first
C26_Witness ==
    /\ pc = "display"
    /\ Len(student_batch_df) = 2
    /\ student_batch_df[1].CATEGORY = "SC" /\ student_batch_df[1].GENDER = "FEM"
    /\ student_batch_df[2].CATEGORY = "OC" /\ student_batch_df[2].GENDER = "GEN"
    /\ Len(session_state.df) = 2
    /\ Len(session_state.df[1].Considered_Cutoffs_for_Option) = 3
    /\ Len(session_state.df[2].Considered_Cutoffs_for_Option) = 1

-----------------------------------------------------------------------------
(* C27 -- a student whose CATEGORY cell is not exactly OC, EWS, OBC, SC or ST has
   no eligible column, the open columns included, is ranked by the category
   rank of the stage, and every row of that student has the verdict
   'N/A - No Cutoff' or 'N/A - Student Rank Missing'. *)
C27_UnknownCategoryNeverDecided ==
    (JustEvaluated /\ Emitting /\ CurStudent.CATEGORY \notin ClaimCategories) =>
        /\ current_student_eligible_cutoff_cols = <<>>
        /\ LastRow.Student_Rank_Used =
                LET rank == IF CurOption.TYPE = "IIT"
                            THEN CurStudent.JEE_ADVNCED_CATEGORY_RANK
                            ELSE CurStudent.JEE_MAIN_CATEGORY_RANK
                IN IF rank = NaN THEN "N/A" ELSE Numerals[rank + 1]
        /\ LastRow.Best_Eligible_Cutoff = "N/A"
        /\ LastRow.Considered_Cutoffs_for_Option = <<>>
        /\ LastRow.Seat_Chance =
                IF LastRow.Student_Rank_Used = "N/A" THEN "N/A - Student Rank Missing"
                ELSE "N/A - No Cutoff"

\* ' SC' with a category rank within every cutoff of the row, and another CRL rank
C27_Witness ==
    /\ JustEvaluated /\ Emitting
    /\ CurStudent.CATEGORY = " SC"
    /\ CurOption.TYPE = "IIT"
    /\ CurStudent.JEE_ADVNCED_CATEGORY_RANK = 1
    /\ CurStudent.JEE_ADVACED_CRL_RANK = MaxRank
    /\ \A col \in OrderColumns : CurOption.cut[col] = MaxCutoff
    /\ LastRow.Seat_Chance = "N/A - No Cutoff"

-----------------------------------------------------------------------------
(* C25 -- whenever a page run reaches the display of the results with the key
   analysis_results_df in the session, the value of the key is a table and not
   None. *)
C25_DisplayedValueIsTable ==
    (pc = "display" /\ session_state.has) => ~session_state.is_none

(* C30 -- vocabulary: the numbers of the group, the first numbers of their
   maximal runs of consecutive integers, and the text that lists those runs in
   ascending order. *)
GroupNumbers == Range(dropna(choice_numbers))
RunStarts(S) == {n \in S : (n - 1) \notin S}
RunEnd(S, start) == CHOOSE m \in S : (start..m) \subseteq S /\ (m + 1) \notin S /\ m >= start

RECURSIVE RunsText(_, _)
RunsText(S, starts) ==
    IF starts = {} THEN <<>>
    ELSE LET first == MinOfSet(starts)
             text == IF RunEnd(S, first) = first
                     THEN <<Numerals[first + 1]>>
                     ELSE <<Numerals[first + 1], "-", Numerals[RunEnd(S, first) + 1]>>
         IN IF starts = {first} THEN text
            ELSE text \o <<", ">> \o RunsText(S, starts \ {first})

(* C30 -- the Order_Range text of a group is the list of the maximal runs of
   consecutive integers of its choice numbers, ascending and pairwise disjoint,
   a single number written alone and a longer run as first-last, the empty text
   for no numbers; the copy in Smart Insights gives the same text. *)
C30_RangesAreMaximalRuns ==
    jpc = "ranges_shown" =>
        /\ order_range = RunsText(GroupNumbers, RunStarts(GroupNumbers))
        /\ smart_insights_split_ranges(sorted(dropna(choice_numbers))) = order_range

(* C28, C29 -- vocabulary: the sidebar has been read; a column of the merged
   data that holds a number in some row; the column of the selected category
   for the selected gender. *)
ColumnChosen == jpc \in {"chosen", "filtered", "analysed", "smart_raised"}
RankFitDone == jpc \in {"analysed", "smart_raised"}
HasValue(col) ==
    /\ col \in merged_df.columns
    /\ \E k \in DOMAIN merged_df.rows : merged_df.rows[k].cut[col] # NaN
SelectedColumn ==
    IF student_gender_pref = "FEM" THEN FemColumnOf(student_category_input)
    ELSE GenColumnOf(student_category_input)

(* C28 -- Smart Insights compares against the selected category's column of the
   selected gender when the merged data holds it with a value; otherwise against
   the category's GEN column when the merged data holds that with a value;
   otherwise no column is chosen and no row gets a rank status.  The chosen
   column is one of the two columns of the selected category. *)
C28_ChosenColumnOfCategory ==
    ColumnChosen =>
        /\ col_to_check =
             IF HasValue(SelectedColumn) THEN SelectedColumn
             ELSE IF HasValue(GenColumnOf(student_category_input))
             THEN GenColumnOf(student_category_input)
             ELSE NoColumn
        /\ col_to_check \in {NoColumn, GenColumnOf(student_category_input),
                             FemColumnOf(student_category_input)}
        /\ (RankFitDone /\ col_to_check = NoColumn) =>
               \A k \in DOMAIN filtered_analysis_df.rows :
                   "Rank_Status" \notin DOMAIN filtered_analysis_df.rows[k]

\* FEM was selected, the category's FEM column holds no value, its GEN column is used
C28_Witness ==
    /\ jpc = "analysed"
    /\ student_category_input = "SC"
    /\ student_gender_pref = "FEM"
    /\ "SC_FEM" \in merged_df.columns
    /\ ~HasValue("SC_FEM")
    /\ col_to_check = "SC_GEN"
    /\ \E k \in DOMAIN filtered_analysis_df.rows :
           filtered_analysis_df.rows[k].Rank_Status = "Likely"

(* C29 -- when a column is chosen every row of the filtered data gets one of the
   two statuses: Likely exactly when the row holds a cutoff in the chosen column
   and the student's rank is at most that cutoff, Unlikely otherwise; a row
   without a cutoff, an unmatched choice included, is Unlikely. *)
C29_LikelyIffWithinChosenCutoff ==
    (RankFitDone /\ col_to_check # NoColumn) =>
        \A k \in DOMAIN filtered_analysis_df.rows :
            LET row == filtered_analysis_df.rows[k]
                cutoff == row.cut[col_to_check]
            IN /\ row.Rank_Status \in {"Likely", "Unlikely"}
               /\ row.Rank_Status = "Likely" <=>
                      (cutoff # NaN /\ (cutoff = Inf \/ student_rank <= cutoff))
               /\ row.TYPE = NoType => row.Rank_Status = "Unlikely"

\* an unmatched choice is Unlikely next to an option whose cutoff equals the rank
C29_Witness ==
    /\ jpc = "analysed"
    /\ Len(filtered_analysis_df.rows) = 2
    /\ col_to_check # NoColumn
    /\ filtered_analysis_df.rows[1].TYPE = NoType
    /\ filtered_analysis_df.rows[1].Rank_Status = "Unlikely"
    /\ filtered_analysis_df.rows[2].cut[col_to_check] = student_rank
    /\ filtered_analysis_df.rows[2].Rank_Status = "Likely"

(* C22 -- vocabulary: the rank the batch page used for the pair just handled,
   and the status Smart Insights gives the same option for the same rank,
   category and gender over the same cutoff columns. *)
PairRank ==
    applicable_student_rank(CurOption.TYPE, current_student_adv_rank,
                            current_student_mains_rank)
SmartColumn == choose_col_to_check(CurStudent.CATEGORY, CurStudent.GENDER, processed_master_df)
SmartLikely ==
    /\ SmartColumn # NoColumn
    /\ rank_status(PairRank, CurOption.cut[SmartColumn]) = "Likely"

(* C22 -- for the same rank, category, gender and option cutoffs the rank-fit
   analysis of Smart Insights marks the option Likely exactly when the batch
   page gives the pair the verdict LIKELY. *)
C22_SameVerdictInBothWorkflows ==
    (/\ JustEvaluated
     /\ Emitting
     /\ CurStudent.CATEGORY \in ClaimCategories
     /\ CurStudent.GENDER \in {"GEN", "FEM"}
     /\ PairRank # None
     /\ PairRank # NaN)
        => (SmartLikely <=> LastRow.Seat_Chance = "LIKELY")

(* C21 -- vocabulary: a header trimmed of the spaces at its ends, upper-cased,
   every space left replaced by an underscore. *)
RECURSIVE ClaimTrimmed(_)
ClaimTrimmed(text) ==
    IF text = <<>> THEN <<>>
    ELSE IF Head(text) = " " THEN ClaimTrimmed(Tail(text))
    ELSE IF text[Len(text)] = " " THEN ClaimTrimmed(SubSeq(text, 1, Len(text) - 1))
    ELSE text
ClaimUpper(piece) ==
    IF piece = "College" THEN "COLLEGE" ELSE IF piece = "Code" THEN "CODE" ELSE piece
ClaimNormalized(text) ==
    [k \in DOMAIN ClaimTrimmed(text) |->
        IF ClaimTrimmed(text)[k] = " " THEN "_" ELSE ClaimUpper(ClaimTrimmed(text)[k])]

(* C21 -- every page names a column of a loaded sheet by the header trimmed,
   upper-cased and with every space replaced by an underscore, and looks up the
   college code of the master under the one name COLLEGE_CODE. *)
C21_HeadersNormalizedAlike ==
    jpc \in {"master_named", "students_named"} =>
        /\ column_name = ClaimNormalized(sheet_header)
        /\ college_code_column(workflow) = <<"COLLEGE", "_", "CODE">>

====
